---- MODULE Spec2Model ----
(***************************************************************************)
(* A model of the Borf interpreter core (grabcocque/borf-simp):            *)
(*   - the resource/linearity tracker (src/repl/interpreter/effects.rs)    *)
(*     driven by the evaluator's stack primitives (evaluator.rs);          *)
(*   - the STACKER translator and its peephole pass (stack_effects.rs),    *)
(*     with the evaluator primitives that run its output.                  *)
(* SpecTracker explores the tracker, SpecStacker and SpecPeephole the      *)
(* translator.                                                             *)
(***************************************************************************)
EXTENDS Integers, Sequences, FiniteSets, TLC

VARIABLES
    \* ---- Evaluator + ResourceManager (SpecTracker) ----
    resources,        \* ResourceManager.resources : id -> Resource
    next_id,          \* ResourceManager.next_id
    current_regions,  \* ResourceManager.current_regions : Seq(SUBSET id)
    stack,            \* Evaluator.stack : Seq(Value)
    result,           \* outcome of the last operation (Result<..> returned)
    issued,           \* history: ids returned by create_resource, in order
    \* ---- StackerTranslator (SpecStacker / SpecPeephole) ----
    pc,               \* position of translate(): "idle","new","scan","emitted","done","error"
    params,           \* translate's params argument (Seq of names)
    body,             \* translate's body argument (Seq of Expr)
    index,            \* loop index of Step 2 (0-based, as in the source)
    param_depths,     \* StackerTranslator.param_depths
    adjusted_param_depths,
    current_stack_depth_increase,
    param_last_use,
    param_usage_count,
    consumed_params,
    output,           \* StackerTranslator.output
    optimized,        \* value returned by translate (after the peephole pass)
    error,            \* error kind translate returned, "" if none
    accesses,         \* history: parameter accesses emitted so far
    \* ---- Env and closures (SpecClosure / SpecEnv) ----
    env,              \* Evaluator.env, or the Env the scope operations act on
    closure           \* Option: the closure eval_expr returned last

tvars == <<resources, next_id, current_regions, stack, result, issued>>
svars == <<pc, params, body, index, param_depths, adjusted_param_depths,
           current_stack_depth_increase, param_last_use, param_usage_count,
           consumed_params, output, optimized, error, accesses>>
evars == <<env, closure>>
vars == <<resources, next_id, current_regions, stack, result, issued,
          pc, params, body, index, param_depths, adjusted_param_depths,
          current_stack_depth_increase, param_last_use, param_usage_count,
          consumed_params, output, optimized, error, accesses,
          env, closure>>

----------------------------------------------------------------------------
(* Bounds of the exploration.                                              *)

\* create_resource is explored up to this many resources
MaxResources == 2
\* start_region is explored up to this nesting depth
MaxRegions == 2
\* the evaluator stack is explored up to this height
MaxStack == 2

----------------------------------------------------------------------------
(* Values (types.rs, enum Value): only the variants the tracker touches.   *)

Number(n) == [tag |-> "Number", n |-> n]

String(s) == [tag |-> "String", s |-> s]

Resource(id, inner) == [tag |-> "Resource", id |-> id, inner |-> inner]

BorrowedResource(id, inner) == [tag |-> "BorrowedResource", id |-> id, inner |-> inner]

Nil == [tag |-> "Nil"]

\* the literal the explored programs push: it serves as the wrapped value and
\* as the type tag of create_resource
Literals == {String("file")}

----------------------------------------------------------------------------
(* Env (types.rs 150-154, env.rs): a binding map and an optional parent    *)
(* (Option<Box<Env>>: the empty sequence or a one-element sequence).       *)

\* Env::new
Env_new == [bindings |-> << >>, parent |-> << >>]

\* Evaluator::new: env is Env::new(), no closure has been returned
EnvIdle ==
    /\ env = Env_new
    /\ closure = << >>

----------------------------------------------------------------------------
(* Results: Ok(..) or Err(kind).  The source reports every tracker error   *)
(* as EvaluatorError::EvalError(message); kind names the message.          *)

Ok(op, id, v) ==
    [op |-> op, status |-> "Ok", id |-> id, value |-> v, leaked |-> {}]

Err(op, id, kind) ==
    [op |-> op, status |-> kind, id |-> id, value |-> Nil, leaked |-> {}]

NoId == -1

----------------------------------------------------------------------------
(* Resource (effects.rs 32-64)                                             *)

Resource_new(id, resource_type) ==
    [id |-> id, resource_type |-> resource_type, consumed |-> FALSE]

\* variant: mark_consumed without the already-consumed check
mark_consumed_unchecked(r) ==
    [ok |-> TRUE, kind |-> "", resource |-> [r EXCEPT !.consumed = TRUE]]

\* Resource::mark_consumed: Err if already consumed, else sets the flag
mark_consumed(r) ==
    IF r.consumed
    THEN [ok |-> FALSE, kind |-> "AlreadyConsumed", resource |-> r]
    ELSE [ok |-> TRUE, kind |-> "", resource |-> [r EXCEPT !.consumed = TRUE]]

----------------------------------------------------------------------------
(* ResourceManager (effects.rs 68-215).  A manager m is the record         *)
(* [resources, next_id, current_regions]; each method returns the manager  *)
(* it leaves behind together with what it returns.                         *)

Manager == [resources |-> resources, next_id |-> next_id,
            current_regions |-> current_regions]

ResourceManager_new ==
    [resources |-> << >>, next_id |-> 0, current_regions |-> << >>]

\* variant: is_borrowed that looks at the innermost region only
is_borrowed_innermost(m, id) ==
    /\ Len(m.current_regions) > 0
    /\ id \in m.current_regions[Len(m.current_regions)]

\* ResourceManager::is_borrowed: id is in some region of the stack
is_borrowed(m, id) ==
    \E k \in 1..Len(m.current_regions) : id \in m.current_regions[k]

\* variant: create_resource that forgets to advance next_id
RM_create_resource_same_id(m, resource_type) ==
    LET id == m.next_id IN
    [id |-> id,
     mgr |-> [m EXCEPT !.resources = [k \in (DOMAIN m.resources) \cup {id} |->
                                        IF k = id THEN Resource_new(id, resource_type)
                                        ELSE m.resources[k]]]]

\* ResourceManager::create_resource
RM_create_resource(m, resource_type) ==
    LET id == m.next_id IN
    [id |-> id,
     mgr |-> [m EXCEPT !.next_id = id + 1,
                       !.resources = [k \in (DOMAIN m.resources) \cup {id} |->
                                        IF k = id THEN Resource_new(id, resource_type)
                                        ELSE m.resources[k]]]]

\* variant: consume_resource without the is_borrowed check
RM_consume_resource_ignores_borrow(m, id) ==
    IF id \in DOMAIN m.resources
    THEN LET r == mark_consumed(m.resources[id]) IN
         IF r.ok
         THEN [ok |-> TRUE, kind |-> "",
               mgr |-> [m EXCEPT !.resources[id] = r.resource]]
         ELSE [ok |-> FALSE, kind |-> r.kind, mgr |-> m]
    ELSE [ok |-> FALSE, kind |-> "NotFound", mgr |-> m]

\* variant: consume_resource that sets the flag before it refuses a borrowed id
RM_consume_resource_marks_first(m, id) ==
    IF id \in DOMAIN m.resources
    THEN LET r == mark_consumed(m.resources[id]) IN
         IF is_borrowed(m, id)
         THEN [ok |-> FALSE, kind |-> "BorrowedActive",
               mgr |-> [m EXCEPT !.resources[id] = r.resource]]
         ELSE IF r.ok
              THEN [ok |-> TRUE, kind |-> "",
                    mgr |-> [m EXCEPT !.resources[id] = r.resource]]
              ELSE [ok |-> FALSE, kind |-> r.kind, mgr |-> m]
    ELSE [ok |-> FALSE, kind |-> "NotFound", mgr |-> m]

\* ResourceManager::consume_resource
RM_consume_resource(m, id) ==
    IF id \in DOMAIN m.resources
    THEN IF is_borrowed(m, id)
         THEN [ok |-> FALSE, kind |-> "BorrowedActive", mgr |-> m]
         ELSE LET r == mark_consumed(m.resources[id]) IN
              IF r.ok
              THEN [ok |-> TRUE, kind |-> "",
                    mgr |-> [m EXCEPT !.resources[id] = r.resource]]
              ELSE [ok |-> FALSE, kind |-> r.kind, mgr |-> m]
    ELSE [ok |-> FALSE, kind |-> "NotFound", mgr |-> m]

\* ResourceManager::check_resource
check_resource(m, id) ==
    IF id \in DOMAIN m.resources
    THEN IF m.resources[id].consumed THEN "Consumed" ELSE ""
    ELSE "NotFound"

\* ResourceManager::start_region
RM_start_region(m) ==
    [m EXCEPT !.current_regions = Append(@, {})]

\* ResourceManager::end_region
RM_end_region(m) ==
    IF Len(m.current_regions) > 0
    THEN [ok |-> TRUE, kind |-> "",
          mgr |-> [m EXCEPT !.current_regions = SubSeq(@, 1, Len(@) - 1)]]
    ELSE [ok |-> FALSE, kind |-> "NoActiveRegion", mgr |-> m]

\* variant: borrow_resource that records the borrow in every open region
RM_borrow_resource_all_regions(m, id) ==
    LET chk == check_resource(m, id) IN
    IF chk # ""
    THEN [ok |-> FALSE, kind |-> chk, mgr |-> m]
    ELSE IF Len(m.current_regions) > 0
         THEN [ok |-> TRUE, kind |-> "",
               mgr |-> [m EXCEPT !.current_regions =
                          [k \in 1..Len(m.current_regions) |->
                             m.current_regions[k] \cup {id}]]]
         ELSE [ok |-> FALSE, kind |-> "NoActiveRegion", mgr |-> m]

\* variant: borrow_resource that asks only whether the id is known
RM_borrow_resource_of_consumed(m, id) ==
    IF id \notin DOMAIN m.resources
    THEN [ok |-> FALSE, kind |-> "NotFound", mgr |-> m]
    ELSE IF Len(m.current_regions) > 0
         THEN [ok |-> TRUE, kind |-> "",
               mgr |-> [m EXCEPT !.current_regions[Len(m.current_regions)] = @ \cup {id}]]
         ELSE [ok |-> FALSE, kind |-> "NoActiveRegion", mgr |-> m]

\* ResourceManager::borrow_resource
RM_borrow_resource(m, id) ==
    LET chk == check_resource(m, id) IN
    IF chk # ""
    THEN [ok |-> FALSE, kind |-> chk, mgr |-> m]
    ELSE IF Len(m.current_regions) > 0
         THEN [ok |-> TRUE, kind |-> "",
               mgr |-> [m EXCEPT !.current_regions[Len(m.current_regions)] = @ \cup {id}]]
         ELSE [ok |-> FALSE, kind |-> "NoActiveRegion", mgr |-> m]

\* variant: check_for_leaks that skips resources still borrowed
check_for_leaks_skips_borrowed(m) ==
    LET leaked == {<<id, m.resources[id].resource_type>> :
                      id \in {k \in DOMAIN m.resources :
                                 ~m.resources[k].consumed /\ ~is_borrowed(m, k)}} IN
    [ok |-> leaked = {}, leaked |-> leaked]

\* ResourceManager::check_for_leaks: the entries pushed on `leaked`
\* (HashMap iteration order is unspecified, so the report is a set)
check_for_leaks(m) ==
    LET leaked == {<<id, m.resources[id].resource_type>> :
                      id \in {k \in DOMAIN m.resources : ~m.resources[k].consumed}} IN
    [ok |-> leaked = {}, leaked |-> leaked]

----------------------------------------------------------------------------
(* ResourceValue for Value, and the evaluator-facing functions             *)
(* (effects.rs 245-310)                                                    *)

\* variant: get_resource_id that also answers for a borrowed handle
get_resource_id_any_handle(v) ==
    IF v.tag \in {"Resource", "BorrowedResource"} THEN v.id ELSE -1

\* get_resource_id: Some(id) only for Value::Resource
get_resource_id(v) == IF v.tag = "Resource" THEN v.id ELSE NoId

\* with_resource_id: relabels a Resource, wraps anything else
with_resource_id(v, id) ==
    IF v.tag = "Resource" THEN Resource(id, v.inner) ELSE Resource(id, v)

\* tag_as_resource
tag_as_resource(v, resource_type, m) ==
    LET c == RM_create_resource(m, resource_type) IN
    [value |-> with_resource_id(v, c.id), id |-> c.id, mgr |-> c.mgr]

\* consume_resource(value, manager)
consume_resource(v, m) ==
    IF get_resource_id(v) # NoId
    THEN LET c == RM_consume_resource(m, v.id) IN
         IF c.ok THEN [ok |-> TRUE, kind |-> "", value |-> v.inner, mgr |-> c.mgr]
         ELSE [ok |-> FALSE, kind |-> c.kind, value |-> Nil, mgr |-> c.mgr]
    ELSE [ok |-> FALSE, kind |-> "ExpectedResource", value |-> Nil, mgr |-> m]

\* borrow_resource(value, manager)
borrow_resource(v, m) ==
    IF get_resource_id(v) # NoId
    THEN LET b == RM_borrow_resource(m, v.id) IN
         IF b.ok THEN [ok |-> TRUE, kind |-> "",
                       value |-> BorrowedResource(v.id, v.inner), mgr |-> b.mgr]
         ELSE [ok |-> FALSE, kind |-> b.kind, value |-> Nil, mgr |-> b.mgr]
    ELSE [ok |-> FALSE, kind |-> "ExpectedResource", value |-> Nil, mgr |-> m]

----------------------------------------------------------------------------
(* Evaluator (evaluator.rs): the stack primitives and resource verbs of    *)
(* execute_operation, and the manager calls it forwards.                   *)

Top(s) == s[Len(s)]

Pop(s) == SubSeq(s, 1, Len(s) - 1)

SetManager(m) ==
    /\ resources' = m.resources
    /\ next_id' = m.next_id
    /\ current_regions' = m.current_regions

InitTracker ==
    /\ resources = ResourceManager_new.resources
    /\ next_id = ResourceManager_new.next_id
    /\ current_regions = ResourceManager_new.current_regions
    /\ stack = << >>
    /\ result = Ok("new", NoId, Nil)
    /\ issued = << >>
    /\ pc = "idle"
    /\ params = << >>
    /\ body = << >>
    /\ index = 0
    /\ param_depths = << >>
    /\ adjusted_param_depths = << >>
    /\ current_stack_depth_increase = 0
    /\ param_last_use = << >>
    /\ param_usage_count = << >>
    /\ consumed_params = << >>
    /\ output = << >>
    /\ optimized = << >>
    /\ error = ""
    /\ accesses = << >>
    /\ EnvIdle

\* eval_expr, Expr::Pipeline with a literal on the left: the value is pushed
PushLiteral(v) ==
    /\ Len(stack) < MaxStack
    /\ stack' = Append(stack, v)
    /\ result' = Ok("push", NoId, Nil)
    /\ UNCHANGED <<resources, next_id, current_regions, issued>>
    /\ UNCHANGED <<svars, evars>>

\* execute_operation "dup"
Dup ==
    /\ Len(stack) < MaxStack
    /\ IF Len(stack) > 0
       THEN /\ stack' = Append(stack, Top(stack))
            /\ result' = Ok("dup", NoId, Nil)
       ELSE /\ stack' = stack
            /\ result' = Err("dup", NoId, "StackUnderflow")
    /\ UNCHANGED <<resources, next_id, current_regions, issued>>
    /\ UNCHANGED <<svars, evars>>

\* execute_operation "drop"
Drop ==
    /\ IF Len(stack) > 0
       THEN /\ stack' = Pop(stack)
            /\ result' = Ok("drop", NoId, Nil)
       ELSE /\ stack' = stack
            /\ result' = Err("drop", NoId, "StackUnderflow")
    /\ UNCHANGED <<resources, next_id, current_regions, issued>>
    /\ UNCHANGED <<svars, evars>>

\* execute_operation "swap"
Swap ==
    /\ IF Len(stack) >= 2
       THEN /\ stack' = [stack EXCEPT ![Len(stack)] = stack[Len(stack) - 1],
                                      ![Len(stack) - 1] = stack[Len(stack)]]
            /\ result' = Ok("swap", NoId, Nil)
       ELSE /\ stack' = stack
            /\ result' = Err("swap", NoId, "StackUnderflow")
    /\ UNCHANGED <<resources, next_id, current_regions, issued>>
    /\ UNCHANGED <<svars, evars>>

\* execute_operation "create_resource": pops the type tag, then the value
OpCreateResource ==
    /\ next_id < MaxResources
    /\ IF Len(stack) >= 2
       THEN IF Top(stack).tag = "String"
            THEN LET value == Top(Pop(stack))
                     t == tag_as_resource(value, Top(stack).s, Manager) IN
                 /\ stack' = Append(Pop(Pop(stack)), t.value)
                 /\ SetManager(t.mgr)
                 /\ issued' = Append(issued, t.id)
                 /\ result' = Ok("create_resource", t.id, t.value)
            ELSE /\ stack' = Pop(stack)
                 /\ result' = Err("create_resource", NoId, "ExpectedString")
                 /\ UNCHANGED <<resources, next_id, current_regions, issued>>
       ELSE /\ result' = Err("create_resource", NoId, "StackUnderflow")
            /\ UNCHANGED <<resources, next_id, current_regions, issued, stack>>
    /\ UNCHANGED <<svars, evars>>

\* execute_operation "consume_resource": pops a value and consumes it
\* (a failed call records the value it was given in result.value)
OpConsumeResource ==
    /\ IF Len(stack) > 0
       THEN LET c == consume_resource(Top(stack), Manager) IN
            /\ SetManager(c.mgr)
            /\ IF c.ok
               THEN /\ stack' = Append(Pop(stack), c.value)
                    /\ result' = Ok("consume_resource", Top(stack).id, c.value)
               ELSE /\ stack' = Pop(stack)
                    /\ result' = [Err("consume_resource",
                                      get_resource_id(Top(stack)), c.kind)
                                  EXCEPT !.value = Top(stack)]
       ELSE /\ result' = Err("consume_resource", NoId, "StackUnderflow")
            /\ UNCHANGED <<resources, next_id, current_regions, stack>>
    /\ UNCHANGED issued
    /\ UNCHANGED <<svars, evars>>

\* execute_operation "borrow": pops a value and pushes the borrowed handle
OpBorrow ==
    /\ IF Len(stack) > 0
       THEN LET b == borrow_resource(Top(stack), Manager) IN
            /\ SetManager(b.mgr)
            /\ IF b.ok
               THEN /\ stack' = Append(Pop(stack), b.value)
                    /\ result' = Ok("borrow", Top(stack).id, b.value)
               ELSE /\ stack' = Pop(stack)
                    /\ result' = Err("borrow", get_resource_id(Top(stack)), b.kind)
       ELSE /\ result' = Err("borrow", NoId, "StackUnderflow")
            /\ UNCHANGED <<resources, next_id, current_regions, stack>>
    /\ UNCHANGED issued
    /\ UNCHANGED <<svars, evars>>

\* Evaluator::start_borrowing_region -> ResourceManager::start_region
StartRegion ==
    /\ Len(current_regions) < MaxRegions
    /\ SetManager(RM_start_region(Manager))
    /\ result' = Ok("start_region", NoId, Nil)
    /\ UNCHANGED <<stack, issued>>
    /\ UNCHANGED <<svars, evars>>

\* Evaluator::end_borrowing_region -> ResourceManager::end_region
EndRegion ==
    /\ LET e == RM_end_region(Manager) IN
       /\ SetManager(e.mgr)
       /\ result' = IF e.ok THEN Ok("end_region", NoId, Nil)
                    ELSE Err("end_region", NoId, e.kind)
    /\ UNCHANGED <<stack, issued>>
    /\ UNCHANGED <<svars, evars>>

\* a direct call of ResourceManager::consume_resource(id) with an id that
\* no handle carries (handles reach the manager through OpConsumeResource)
ManagerConsume(id) ==
    /\ LET c == RM_consume_resource(Manager, id) IN
       /\ SetManager(c.mgr)
       /\ result' = IF c.ok THEN Ok("rm_consume", id, Nil)
                    ELSE Err("rm_consume", id, c.kind)
    /\ UNCHANGED <<stack, issued>>
    /\ UNCHANGED <<svars, evars>>

\* a direct call of ResourceManager::borrow_resource(id) with an id that
\* no handle carries (handles reach the manager through OpBorrow)
ManagerBorrow(id) ==
    /\ LET b == RM_borrow_resource(Manager, id) IN
       /\ SetManager(b.mgr)
       /\ result' = IF b.ok THEN Ok("rm_borrow", id, Nil)
                    ELSE Err("rm_borrow", id, b.kind)
    /\ UNCHANGED <<stack, issued>>
    /\ UNCHANGED <<svars, evars>>

\* Evaluator::check_for_resource_leaks -> ResourceManager::check_for_leaks (&self)
CheckForLeaks ==
    /\ LET l == check_for_leaks(Manager) IN
       result' = [op |-> "check_for_leaks",
                  status |-> IF l.ok THEN "Ok" ELSE "Leak",
                  id |-> NoId, value |-> Nil, leaked |-> l.leaked]
    /\ UNCHANGED <<resources, next_id, current_regions, stack, issued>>
    /\ UNCHANGED <<svars, evars>>

NextTracker ==
    \/ \E v \in Literals : PushLiteral(v)
    \/ Dup
    \/ Drop
    \/ Swap
    \/ OpCreateResource
    \/ OpConsumeResource
    \/ OpBorrow
    \/ StartRegion
    \/ EndRegion
    \/ \E id \in {next_id} : ManagerConsume(id)
    \/ \E id \in {next_id} : ManagerBorrow(id)
    \/ CheckForLeaks

SpecTracker == InitTracker /\ [][NextTracker]_vars

----------------------------------------------------------------------------
(* Properties of the tracker (checked under SpecTracker)                   *)

\* the step just taken called consume_resource on a known id
ConsumeStep ==
    /\ result'.op \in {"consume_resource", "rm_consume"}
    /\ result'.id \in DOMAIN resources

\* the step just taken called borrow_resource on a resource handle / an id
BorrowStep ==
    /\ result'.op \in {"borrow", "rm_borrow"}
    /\ result'.id # NoId

\* the ids held by some open region
OpenIds == UNION {current_regions[k] : k \in 1..Len(current_regions)}

\* C1: each resource id is consumed successfully at most once: a consume of a
\* live, unborrowed resource sets its flag and returns the inner value, every
\* consume of an already consumed id fails AlreadyConsumed, the flag never
\* returns to false and no entry is ever removed.
C1_SingleUse ==
    [][ /\ \A id \in DOMAIN resources :
              /\ id \in DOMAIN resources'
              /\ resources[id].consumed => resources'[id].consumed
        /\ ConsumeStep =>
              IF resources[result'.id].consumed
              THEN /\ result'.status = "AlreadyConsumed"
                   /\ resources' = resources
              ELSE ~(result'.id \in OpenIds) =>
                      /\ result'.status = "Ok"
                      /\ resources'[result'.id].consumed
                      /\ \A o \in DOMAIN resources \ {result'.id} :
                            resources'[o] = resources[o]
                      /\ result'.op = "consume_resource" =>
                            Top(stack') = Top(stack).inner
      ]_vars

\* a second consume through a duplicated handle was rejected
C1_Witness ==
    /\ result.op = "consume_resource"
    /\ result.status = "AlreadyConsumed"

\* C2: while a region that borrowed r is open, consume_resource(r) fails as
\* borrowed and changes nothing; once end_region has closed the region and no
\* other open region holds r, consume_resource(r) succeeds and returns r's
\* inner value.
C2_BorrowBlocksConsumption ==
    [][ /\ (ConsumeStep /\ result'.id \in OpenIds) =>
              /\ result'.status = "BorrowedActive"
              /\ <<resources, next_id, current_regions>>'
                    = <<resources, next_id, current_regions>>
        /\ (result'.op = "end_region" /\ result'.status = "Ok") =>
              \A id \in Top(current_regions) \ OpenIds' :
                 LET c == consume_resource(Resource(id, Number(1)), Manager') IN
                 /\ c.ok
                 /\ c.value = Number(1)
                 /\ c.mgr.resources[id].consumed
        /\ (ConsumeStep /\ ~(result'.id \in OpenIds)
                        /\ ~resources[result'.id].consumed) =>
              /\ result'.status = "Ok"
              /\ result'.op = "consume_resource" => Top(stack') = Top(stack).inner
      ]_vars

\* a resource that was borrowed (its borrowed handle is still on the stack) has
\* been consumed after its region ended
C2_Witness ==
    /\ result.op = "consume_resource"
    /\ result.status = "Ok"
    /\ Len(current_regions) = 0
    /\ Len(stack) = 2
    /\ stack[1].tag = "BorrowedResource"
    /\ stack[1].id = result.id
    /\ stack[2] = stack[1].inner

\* C3: in every reachable state, consume_resource(id) fails for every id held
\* by any open region, innermost or outer; so closing an inner region does not
\* make a resource consumable that an outer region still holds.
C3_AnyOpenRegionBlocks ==
    /\ \A id \in DOMAIN resources :
          (\E k \in 1..Len(current_regions) : id \in current_regions[k]) =>
             /\ ~RM_consume_resource(Manager, id).ok
             /\ RM_consume_resource(Manager, id).mgr = Manager
             /\ ~consume_resource(Resource(id, Nil), Manager).ok
    /\ (result.op \in {"consume_resource", "rm_consume"} /\ result.status = "Ok") =>
          ~(result.id \in OpenIds)

\* a consume was rejected for a resource held by the outer region only
C3_Witness ==
    /\ Len(current_regions) >= 2
    /\ result.op = "consume_resource"
    /\ result.status = "BorrowedActive"
    /\ result.id \in current_regions[1]
    /\ ~(result.id \in current_regions[Len(current_regions)])

\* C8: check_for_leaks reports leaks iff some created resource is unconsumed,
\* reports exactly the unconsumed resources, and changes no tracker state.
C8_LeakDetection ==
    [][ result'.op = "check_for_leaks" =>
          /\ (result'.status = "Leak") <=>
                (\E id \in DOMAIN resources : ~resources[id].consumed)
          /\ result'.status \in {"Leak", "Ok"}
          /\ result'.leaked =
                {<<id, resources[id].resource_type>> :
                    id \in {k \in DOMAIN resources : resources[k].consumed = FALSE}}
          /\ <<resources, next_id, current_regions, stack>>'
                = <<resources, next_id, current_regions, stack>>
      ]_vars

\* leaks were reported with one resource consumed and another one borrowed
C8_Witness ==
    /\ result.op = "check_for_leaks"
    /\ result.status = "Leak"
    /\ \E id \in DOMAIN resources : resources[id].consumed
    /\ \E id \in DOMAIN resources : id \in OpenIds
    /\ Cardinality(result.leaked) = 1

\* C9: create_resource returns an id strictly greater than every id returned
\* before, and no two resources share an id.
C9_FreshIds ==
    /\ \A i, j \in 1..Len(issued) : i < j => issued[i] < issued[j]
    /\ DOMAIN resources = {issued[i] : i \in 1..Len(issued)}
    /\ Cardinality(DOMAIN resources) = Len(issued)
    /\ \A id \in DOMAIN resources : resources[id].id = id /\ id < next_id
    /\ (result.op = "create_resource" /\ result.status = "Ok") =>
          /\ result.id = issued[Len(issued)]
          /\ result.value.tag = "Resource"
          /\ result.value.id = result.id

\* a second resource was created after the first was consumed, inside a region
C9_Witness ==
    /\ result.op = "create_resource"
    /\ result.status = "Ok"
    /\ Len(issued) = 2
    /\ resources[issued[1]].consumed
    /\ Len(current_regions) > 0

\* C10 as stated: borrow_resource fails when the id is unknown or the resource
\* consumed, and succeeds in every other case.
C10_Original ==
    [][ BorrowStep =>
          IF ~(result'.id \in DOMAIN resources) \/ resources[result'.id].consumed
          THEN result'.status # "Ok"
          ELSE result'.status = "Ok"
      ]_vars

\* C10 (amended): borrow_resource fails when the id is unknown, when the
\* resource is consumed, and when no region is open; in every other case it
\* succeeds, inserts the id into the innermost open region only and returns a
\* BorrowedResource with the same id and inner value.
C10_Borrow ==
    [][ BorrowStep =>
          IF ~(result'.id \in DOMAIN resources)
          THEN result'.status = "NotFound" /\ current_regions' = current_regions
          ELSE IF resources[result'.id].consumed
          THEN result'.status = "Consumed" /\ current_regions' = current_regions
          ELSE IF Len(current_regions) = 0
          THEN result'.status = "NoActiveRegion" /\ current_regions' = current_regions
          ELSE /\ result'.status = "Ok"
               /\ Len(current_regions') = Len(current_regions)
               /\ current_regions'[Len(current_regions)]
                     = current_regions[Len(current_regions)] \cup {result'.id}
               /\ \A k \in 1..(Len(current_regions) - 1) :
                     current_regions'[k] = current_regions[k]
               /\ resources' = resources
               /\ result'.op = "borrow" =>
                     Top(stack') = BorrowedResource(Top(stack).id, Top(stack).inner)
      ]_vars

\* a borrow succeeded inside a nested region and left the outer region alone
C10_Witness ==
    /\ result.op = "borrow"
    /\ result.status = "Ok"
    /\ Len(current_regions) >= 2
    /\ result.id \in current_regions[Len(current_regions)]
    /\ ~(result.id \in current_regions[1])
    /\ Top(stack) = result.value
    /\ Top(stack).tag = "BorrowedResource"

\* C11: consume_resource applied to a BorrowedResource value fails in every
\* state, also once the region that produced the handle has ended, and leaves
\* the tracker (so the resource's consumed flag) unchanged.
C11_BorrowedNeverConsumed ==
    /\ \A k \in 1..Len(stack) :
          stack[k].tag = "BorrowedResource" =>
             /\ ~consume_resource(stack[k], Manager).ok
             /\ consume_resource(stack[k], Manager).mgr = Manager
    /\ (result.op = "consume_resource" /\ result.status # "Ok"
           /\ result.value.tag = "BorrowedResource")
          => result.status = "ExpectedResource"

\* consume_resource was just refused on a borrowed handle whose region has
\* ended; the resource it names is still unconsumed
C11_Witness ==
    /\ result.op = "consume_resource"
    /\ result.status = "ExpectedResource"
    /\ result.value.tag = "BorrowedResource"
    /\ current_regions = << >>
    /\ ~resources[result.value.id].consumed

\* C12: a consume_resource, borrow_resource or end_region call that fails
\* leaves the resource table, the region stack and the next-id counter as they
\* were; end_region fails exactly when no region is open.
C12_FailuresLeaveTrackerUnchanged ==
    [][ /\ (/\ result'.op \in {"consume_resource", "rm_consume", "borrow",
                               "rm_borrow", "end_region"}
            /\ result'.status # "Ok")
           => /\ resources' = resources
              /\ current_regions' = current_regions
              /\ next_id' = next_id
        /\ result'.op = "end_region"
           => (result'.status # "Ok" <=> current_regions = << >>)
      ]_vars

\* end_region was just refused with no region open, while the tracker holds
\* an unconsumed resource
C12_Witness ==
    /\ result.op = "end_region"
    /\ result.status = "NoActiveRegion"
    /\ \E id \in DOMAIN resources : ~resources[id].consumed

\* the entry exists in the tracker's table
KnownEntry(id) == id \in DOMAIN resources

\* the entry exists and has not made its live -> consumed transition
LiveEntry(id) == KnownEntry(id) /\ ~resources[id].consumed

\* C13: in every reachable state the id carried by every Resource or
\* BorrowedResource value the evaluator holds refers to a live entry of its
\* resource tracker.
C13_HandlesReferToLiveEntries ==
    \A k \in 1..Len(stack) :
       stack[k].tag \in {"Resource", "BorrowedResource"} => LiveEntry(stack[k].id)

----------------------------------------------------------------------------
(* Expr (types.rs 28-83): the forms a quotation body is built from here.   *)

Expr_Number(n) == [expr |-> "Number", n |-> n]

Expr_Symbol(name) == [expr |-> "Symbol", s |-> name]

----------------------------------------------------------------------------
(* StackEffect and the table of built-in words (stack_effects.rs 10-211)   *)

StackEffect_new(inputs, outputs) == [inputs |-> inputs, outputs |-> outputs]

\* variant: a depth change that counts the outputs only
stack_depth_change_outputs(e) == Len(e.outputs)

\* StackEffect::stack_depth_change
stack_depth_change(e) == Len(e.outputs) - Len(e.inputs)

None == [some |-> FALSE]

Some(e) == [some |-> TRUE, effect |-> e]

\* get_word_effect for Expr::Symbol words
get_word_effect(word) ==
    CASE word = "dup"  -> Some(StackEffect_new(<<"a">>, <<"a", "a">>))
      [] word = "drop" -> Some(StackEffect_new(<<"a">>, << >>))
      [] word = "swap" -> Some(StackEffect_new(<<"a", "b">>, <<"b", "a">>))
      [] word = "rot"  -> Some(StackEffect_new(<<"a", "b", "c">>, <<"b", "c", "a">>))
      [] word = "over" -> Some(StackEffect_new(<<"a", "b">>, <<"a", "b", "a">>))
      [] word = "tuck" -> Some(StackEffect_new(<<"a", "b">>, <<"b", "a", "b">>))
      [] word = "nip"  -> Some(StackEffect_new(<<"a", "b">>, <<"b">>))
      [] word = "pick" -> None
      [] word = "roll" -> None
      [] word \in {"+", "add"} -> Some(StackEffect_new(<<"a", "b">>, <<"sum">>))
      [] word \in {"-", "sub"} -> Some(StackEffect_new(<<"a", "b">>, <<"diff">>))
      [] word \in {"*", "mul"} -> Some(StackEffect_new(<<"a", "b">>, <<"product">>))
      [] word \in {"/", "div"} -> Some(StackEffect_new(<<"a", "b">>, <<"quotient">>))
      [] word = "mod"  -> Some(StackEffect_new(<<"a", "b">>, <<"remainder">>))
      [] word = "sqrt" -> Some(StackEffect_new(<<"a">>, <<"sqrt">>))
      [] word \in {"and", "or"} -> Some(StackEffect_new(<<"a", "b">>, <<"result">>))
      [] word = "not"  -> Some(StackEffect_new(<<"a">>, <<"result">>))
      [] word \in {"==", "eq", "!=", "<", ">", "<=", ">="} ->
                          Some(StackEffect_new(<<"a", "b">>, <<"result">>))
      [] word = "dip"  -> Some(StackEffect_new(<<"x", "quot">>, <<"quot(x)">>))
      [] word = "bi"   -> Some(StackEffect_new(<<"x", "p", "q">>, <<"p(x)", "q(x)">>))
      [] word = "tri"  -> Some(StackEffect_new(<<"x", "p", "q", "r">>,
                                               <<"p(x)", "q(x)", "r(x)">>))
      [] word = "keep" -> Some(StackEffect_new(<<"x", "quot">>, <<"x", "quot(x)">>))
      [] word = "bi*"  -> Some(StackEffect_new(<<"x", "y", "p", "q">>, <<"p(x)", "q(y)">>))
      [] word = "bi@"  -> Some(StackEffect_new(<<"x", "y", "p">>, <<"p(x)", "p(y)">>))
      [] OTHER -> None

\* helpers of the peephole pass (stack_effects.rs 593-623)
is_expr_number(e, value) == e.expr = "Number" /\ e.n = value

is_expr_symbol(e, name) == e.expr = "Symbol" /\ e.s = name

is_binary_op(e) ==
    /\ e.expr = "Symbol"
    /\ e.s \in {"+", "-", "*", "/", "mod", "==", "!=", "<", ">", "<=", ">=", "and", "or"}

is_unary_op(e) ==
    /\ e.expr = "Symbol"
    /\ e.s \in {"not", "sqrt", "sin", "cos", "tan", "abs", "neg"}

\* apply_peephole_optimizations: the sweep from 0-based position i of out,
\* acc the sequence built so far.  out[i + 1] is the source's self.output[i].
RECURSIVE peephole_from(_, _, _)
peephole_from(out, i, acc) ==
    LET n == Len(out)
        at(k) == out[k + 1]
    IN
    IF i >= n THEN acc
    ELSE IF /\ i + 4 <= n
            /\ is_expr_number(at(i), 1) /\ is_expr_symbol(at(i + 1), "pick")
            /\ is_expr_number(at(i + 2), 1) /\ is_expr_symbol(at(i + 3), "pick")
            /\ i + 4 < n
            /\ is_binary_op(at(i + 4))
         THEN peephole_from(out, i + 5, Append(acc, at(i + 4)))
    ELSE IF /\ i + 4 <= n
            /\ is_expr_number(at(i), 0) /\ is_expr_symbol(at(i + 1), "pick")
            /\ is_expr_number(at(i + 2), 1) /\ is_expr_symbol(at(i + 3), "pick")
            /\ i + 4 < n
            /\ is_binary_op(at(i + 4))
         THEN peephole_from(out, i + 5, acc \o <<Expr_Symbol("swap"), at(i + 4)>>)
    ELSE IF /\ i + 2 <= n
            /\ is_expr_number(at(i), 0) /\ is_expr_symbol(at(i + 1), "pick")
            /\ i + 2 < n
            /\ is_unary_op(at(i + 2))
         THEN peephole_from(out, i + 3, Append(acc, at(i + 2)))
    ELSE IF /\ i + 2 <= n
            /\ is_expr_number(at(i), 1) /\ is_expr_symbol(at(i + 1), "pick")
            /\ i + 2 < n
            /\ is_expr_symbol(at(i + 2), "drop")
         THEN peephole_from(out, i + 3, Append(acc, Expr_Symbol("nip")))
    ELSE IF /\ i + 2 <= n
            /\ is_expr_number(at(i), 0) /\ is_expr_symbol(at(i + 1), "pick")
            /\ i + 2 < n
            /\ is_expr_symbol(at(i + 2), "drop")
         THEN peephole_from(out, i + 3, Append(acc, Expr_Symbol("drop")))
    ELSE IF /\ i + 2 <= n
            /\ is_expr_number(at(i), 1) /\ is_expr_symbol(at(i + 1), "pick")
            /\ i + 2 = n
         THEN peephole_from(out, i + 2,
                            acc \o <<Expr_Symbol("swap"), Expr_Symbol("drop")>>)
    ELSE IF /\ i + 2 <= n
            /\ is_expr_number(at(i), 0) /\ is_expr_symbol(at(i + 1), "pick")
            /\ i + 2 = n
         THEN peephole_from(out, i + 2, acc)
    ELSE peephole_from(out, i + 1, Append(acc, at(i)))

\* variant: a pass that appends the rewritten sequence to its input
apply_peephole_optimizations_appending(out) ==
    IF Len(out) = 0 THEN << >> ELSE out \o peephole_from(out, 0, << >>)

apply_peephole_optimizations(out) ==
    IF Len(out) = 0 THEN << >> ELSE peephole_from(out, 0, << >>)

----------------------------------------------------------------------------
(* The evaluator's stack machine as a function (evaluator.rs): it runs the *)
(* operation sequences translate returns.  A number on this stack carries  *)
(* a history tag src (the parameter it was loaded for, "literal" or        *)
(* "calc") next to its i32 payload n; no operation reads src.  The values  *)
(* explored stay far inside i32, so "+", "-" and "*" never wrap.           *)

Num(n, src) == [tag |-> "Number", n |-> n, src |-> src]

Done(st) == [ok |-> TRUE, stack |-> st]

Fail(st) == [ok |-> FALSE, stack |-> st]

Front(st, k) == SubSeq(st, 1, Len(st) - k)

\* variant: arithmetic that pushes its result above the two operands
arith_keeps_operands(op, st) ==
    IF Len(st) >= 2
    THEN LET b == st[Len(st)]
             a == st[Len(st) - 1]
             r == CASE op \in {"+", "add"} -> a.n + b.n
                    [] op \in {"-", "sub"} -> a.n - b.n
                    [] op \in {"*", "mul"} -> a.n * b.n
         IN IF a.tag = "Number" /\ b.tag = "Number"
            THEN Done(Append(st, Num(r, "calc")))
            ELSE Fail(Front(st, 2))
    ELSE Fail(st)

\* "add" / "sub" / "mul" (the operators "+", "-", "*" of Expr::Binary)
arith(op, st) ==
    IF Len(st) >= 2
    THEN LET b == st[Len(st)]
             a == st[Len(st) - 1]
             r == CASE op \in {"+", "add"} -> a.n + b.n
                    [] op \in {"-", "sub"} -> a.n - b.n
                    [] op \in {"*", "mul"} -> a.n * b.n
         IN IF a.tag = "Number" /\ b.tag = "Number"
            THEN Done(Append(Front(st, 2), Num(r, "calc")))
            ELSE Fail(Front(st, 2))
    ELSE Fail(st)

\* variant: pick that counts the depth from the bottom of the stack
pick_from_bottom(st) ==
    IF Len(st) >= 2
    THEN LET n == st[Len(st)]
             rest == Front(st, 1)
         IN IF n.tag = "Number"
            THEN IF n.n < 0 \/ n.n >= Len(rest)
                 THEN Fail(rest)
                 ELSE Done(Append(rest, rest[1 + n.n]))
            ELSE Fail(rest)
    ELSE Fail(st)

\* "pick": the depth is popped, then the item that deep is copied to the top
pick(st) ==
    IF Len(st) >= 2
    THEN LET n == st[Len(st)]
             rest == Front(st, 1)
         IN IF n.tag = "Number"
            THEN IF n.n < 0 \/ n.n >= Len(rest)
                 THEN Fail(rest)
                 ELSE Done(Append(rest, rest[Len(rest) - n.n]))
            ELSE Fail(rest)
    ELSE Fail(st)

\* "roll" (types.rs, Expr::Roll: ... a b c 2 roll -> ... b c a): the depth
\* is popped, then the item that deep is moved to the top
roll(st) ==
    IF Len(st) >= 2
    THEN LET n == st[Len(st)]
             rest == Front(st, 1)
             k == Len(rest) - n.n
         IN IF n.tag = "Number"
            THEN IF n.n < 0 \/ n.n >= Len(rest)
                 THEN Fail(rest)
                 ELSE Done(SubSeq(rest, 1, k - 1) \o SubSeq(rest, k + 1, Len(rest))
                           \o <<rest[k]>>)
            ELSE Fail(rest)
    ELSE Fail(st)

\* "nip" (stack_effects.rs: a b -- b)
nip(st) ==
    IF Len(st) >= 2 THEN Done(Append(Front(st, 2), st[Len(st)])) ELSE Fail(st)

\* variant: the primitives with a drop that removes the bottom item
execute_operation_drop_bottom(op, st) ==
    LET n == Len(st) IN
    CASE op = "dup"  -> IF n >= 1 THEN Done(Append(st, st[n])) ELSE Fail(st)
      [] op = "drop" -> IF n >= 1 THEN Done(Tail(st)) ELSE Fail(st)
      [] op = "swap" -> IF n >= 2
                        THEN Done(Front(st, 2) \o <<st[n], st[n - 1]>>)
                        ELSE Fail(st)
      [] OTHER -> Fail(st)

\* the operations as a function of the stack.  "roll" and "nip" (and the
\* operator spellings "+", "-", "*") are given the behaviour their
\* declarations state so that every sequence translate returns can be run;
\* the names execute_operation itself matches are EvaluatorOperations below.
execute_operation(op, st) ==
    LET n == Len(st) IN
    CASE op \in {"+", "add", "-", "sub", "*", "mul"} -> arith(op, st)
      [] op = "dup"  -> IF n >= 1 THEN Done(Append(st, st[n])) ELSE Fail(st)
      [] op = "drop" -> IF n >= 1 THEN Done(Front(st, 1)) ELSE Fail(st)
      [] op = "swap" -> IF n >= 2
                        THEN Done(Front(st, 2) \o <<st[n], st[n - 1]>>)
                        ELSE Fail(st)
      [] op = "rot"  -> IF n >= 3
                        THEN Done(Front(st, 3) \o <<st[n - 1], st[n], st[n - 2]>>)
                        ELSE Fail(st)
      [] op = "over" -> IF n >= 2 THEN Done(Append(st, st[n - 1])) ELSE Fail(st)
      [] op = "tuck" -> IF n >= 2
                        THEN Done(Front(st, 2) \o <<st[n], st[n - 1], st[n]>>)
                        ELSE Fail(st)
      [] op = "pick" -> pick(st)
      [] op = "roll" -> roll(st)
      [] op = "nip"  -> nip(st)
      [] OTHER -> Fail(st)

\* eval_expr on one element of a sequence: a literal is pushed, a symbol is
\* executed as an operation
eval_expr(e, st) ==
    IF e.expr = "Number" THEN Done(Append(st, Num(e.n, "literal")))
    ELSE execute_operation(e.s, st)

RECURSIVE Run(_, _)
Run(ops, st) ==
    IF ops = << >> THEN Done(st)
    ELSE LET r == eval_expr(Head(ops), st)
         IN IF r.ok THEN Run(Tail(ops), r.stack) ELSE r

----------------------------------------------------------------------------
(* StackerTranslator::translate (stack_effects.rs 245-274) as a sequence   *)
(* of steps: the reset and seeding, one step per body expression, and the  *)
(* peephole pass that produces the returned sequence.                      *)

\* the parameter names quotations are declared with, in declaration order
ParamNames == <<"a", "b", "c", "d", "e">>

\* translate is explored for parameter lists of 1..MaxParams names
MaxParams == 3
\* ... and for every body of up to MaxBody expressions
MaxBody == 5
\* peephole sequences are explored for bodies of up to MaxPeepholeBody
MaxPeepholeBody == 6

\* HashMap::insert
MapInsert(m, key, v) ==
    [x \in (DOMAIN m) \cup {key} |-> IF x = key THEN v ELSE m[x]]

\* Step 1 of translate: for (i, param) in params.iter().enumerate().rev()
\* { insert(param.name, i) }.  k is the number of entries still to visit.
RECURSIVE seed_param_depths(_, _, _)
seed_param_depths(ps, k, m) ==
    IF k = 0 THEN m
    ELSE seed_param_depths(ps, k - 1, MapInsert(m, ps[k], k - 1))

\* analyze_parameter_usage: the last index at which each parameter occurs.
\* i is the 0-based index of the expression visited next.
RECURSIVE analyze_last_use(_, _, _, _)
analyze_last_use(b, depths, i, m) ==
    IF i >= Len(b) THEN m
    ELSE LET e == b[i + 1]
         IN IF e.expr = "Symbol" /\ e.s \in DOMAIN depths
            THEN analyze_last_use(b, depths, i + 1, MapInsert(m, e.s, i))
            ELSE analyze_last_use(b, depths, i + 1, m)

\* analyze_parameter_usage: the number of occurrences of each parameter
RECURSIVE analyze_usage_count(_, _, _, _)
analyze_usage_count(b, depths, i, m) ==
    IF i >= Len(b) THEN m
    ELSE LET e == b[i + 1]
         IN IF e.expr = "Symbol" /\ e.s \in DOMAIN depths
            THEN analyze_usage_count(b, depths, i + 1,
                     MapInsert(m, e.s, (IF e.s \in DOMAIN m THEN m[e.s] ELSE 0) + 1))
            ELSE analyze_usage_count(b, depths, i + 1, m)

\* variant: the last use of a parameter just below the top emits over
last_use_ops_over(actual_depth) ==
    IF actual_depth = 0 THEN << >>
    ELSE IF actual_depth = 1 THEN <<Expr_Symbol("over")>>
    ELSE IF actual_depth = 2 THEN <<Expr_Symbol("rot")>>
    ELSE <<Expr_Number(actual_depth), Expr_Symbol("roll")>>

\* the operations emitted to bring a parameter at actual_depth to the top on
\* its last use
last_use_ops(actual_depth) ==
    IF actual_depth = 0 THEN << >>
    ELSE IF actual_depth = 1 THEN <<Expr_Symbol("swap")>>
    ELSE IF actual_depth = 2 THEN <<Expr_Symbol("rot")>>
    ELSE <<Expr_Number(actual_depth), Expr_Symbol("roll")>>

\* "when we consume a parameter, all deeper parameters move up by 1"
shift_adjusted_depths(adj, actual_depth) ==
    [p \in DOMAIN adj |-> IF adj[p] > actual_depth THEN adj[p] - 1 ELSE adj[p]]

TrackerIdle ==
    /\ resources = ResourceManager_new.resources
    /\ next_id = ResourceManager_new.next_id
    /\ current_regions = ResourceManager_new.current_regions
    /\ stack = << >>
    /\ result = Ok("new", NoId, Nil)
    /\ issued = << >>
    /\ EnvIdle

\* StackerTranslator::new, about to be given params ps and body b
StackerTranslator_new(ps, b) ==
    /\ pc = "new"
    /\ params = ps
    /\ body = b
    /\ index = 0
    /\ param_depths = << >>
    /\ adjusted_param_depths = << >>
    /\ current_stack_depth_increase = 0
    /\ param_last_use = << >>
    /\ param_usage_count = << >>
    /\ consumed_params = << >>
    /\ output = << >>
    /\ optimized = << >>
    /\ error = ""
    /\ accesses = << >>

\* translate, reset + Step 1 + Step 1.5
TranslateBegin ==
    /\ pc = "new"
    /\ LET depths == seed_param_depths(params, Len(params), << >>)
       IN /\ param_depths' = depths
          /\ adjusted_param_depths' = depths
          /\ param_last_use' = analyze_last_use(body, depths, 0, << >>)
          /\ param_usage_count' = analyze_usage_count(body, depths, 0, << >>)
    /\ current_stack_depth_increase' = 0
    /\ output' = << >>
    /\ consumed_params' = << >>
    /\ index' = 0
    /\ pc' = "scan"
    /\ UNCHANGED <<params, body, optimized, error, accesses>>
    /\ UNCHANGED <<tvars, evars>>

\* translate returns Err(kind) out of Step 2
TranslateFails(kind) ==
    /\ pc' = "error"
    /\ error' = kind
    /\ UNCHANGED <<params, body, index, param_depths, adjusted_param_depths,
                   current_stack_depth_increase, param_last_use,
                   param_usage_count, consumed_params, output, optimized,
                   accesses>>

\* translate_expr_enhanced, Expr::Number
TranslateLiteral ==
    /\ pc = "scan"
    /\ index < Len(body)
    /\ body[index + 1].expr = "Number"
    /\ output' = Append(output, body[index + 1])
    /\ current_stack_depth_increase' = current_stack_depth_increase + 1
    /\ index' = index + 1
    /\ UNCHANGED <<pc, params, body, param_depths, adjusted_param_depths,
                   param_last_use, param_usage_count, consumed_params,
                   optimized, error, accesses>>
    /\ UNCHANGED <<tvars, evars>>

\* translate_expr_enhanced, Expr::Symbol naming a parameter
TranslateParam ==
    /\ pc = "scan"
    /\ index < Len(body)
    /\ body[index + 1].expr = "Symbol"
    /\ body[index + 1].s \in DOMAIN param_depths
    /\ LET s == body[index + 1].s
           is_last_use == s \in DOMAIN param_last_use /\ param_last_use[s] = index
           actual_depth == adjusted_param_depths[s] + current_stack_depth_increase
       IN IF \E k \in 1..Len(consumed_params) : consumed_params[k] = s
          THEN TranslateFails("ParamAlreadyConsumed")
          ELSE IF actual_depth < 0
          THEN TranslateFails("NegativeDepth")
          ELSE IF is_last_use
          THEN /\ output' = output \o last_use_ops(actual_depth)
               /\ consumed_params' = Append(consumed_params, s)
               /\ adjusted_param_depths' =
                      shift_adjusted_depths(adjusted_param_depths, actual_depth)
               /\ accesses' = Append(accesses,
                      [param |-> s, from |-> Len(output),
                       to |-> Len(output) + Len(last_use_ops(actual_depth))])
               /\ index' = index + 1
               /\ UNCHANGED <<pc, params, body, param_depths,
                              current_stack_depth_increase, param_last_use,
                              param_usage_count, optimized, error>>
          ELSE /\ output' = output \o <<Expr_Number(actual_depth), Expr_Symbol("pick")>>
               /\ current_stack_depth_increase' = current_stack_depth_increase + 1
               /\ accesses' = Append(accesses,
                      [param |-> s, from |-> Len(output), to |-> Len(output) + 2])
               /\ index' = index + 1
               /\ UNCHANGED <<pc, params, body, param_depths, adjusted_param_depths,
                              param_last_use, param_usage_count, consumed_params,
                              optimized, error>>
    /\ UNCHANGED <<tvars, evars>>

\* translate_expr_enhanced, Expr::Symbol naming a word
TranslateWord ==
    /\ pc = "scan"
    /\ index < Len(body)
    /\ body[index + 1].expr = "Symbol"
    /\ body[index + 1].s \notin DOMAIN param_depths
    /\ LET s == body[index + 1].s
           stack_effect == get_word_effect(s)
       IN IF ~stack_effect.some
          THEN TranslateFails("UnknownWordEffect")
          ELSE /\ current_stack_depth_increase' =
                      IF s = "pick" \/ s = "roll"
                      THEN current_stack_depth_increase + 0
                      ELSE current_stack_depth_increase
                           + stack_depth_change(stack_effect.effect)
               /\ output' = Append(output, Expr_Symbol(s))
               /\ index' = index + 1
               /\ UNCHANGED <<pc, params, body, param_depths, adjusted_param_depths,
                              param_last_use, param_usage_count, consumed_params,
                              optimized, error, accesses>>
    /\ UNCHANGED <<tvars, evars>>

\* translate, Step 3 and return Ok(optimized)
TranslateEnd ==
    /\ pc = "scan"
    /\ index = Len(body)
    /\ optimized' = apply_peephole_optimizations(output)
    /\ pc' = "done"
    /\ UNCHANGED <<params, body, index, param_depths, adjusted_param_depths,
                   current_stack_depth_increase, param_last_use,
                   param_usage_count, consumed_params, output, error, accesses>>
    /\ UNCHANGED <<tvars, evars>>

NextStacker ==
    \/ TranslateBegin
    \/ TranslateLiteral
    \/ TranslateParam
    \/ TranslateWord
    \/ TranslateEnd

\* every sequence of up to n elements of S
SeqsUpTo(S, n) == UNION {[1..k -> S] : k \in 0..n}

Params(n) == SubSeq(ParamNames, 1, n)

\* body elements: references to the declared names, a literal, and words
\* with a declared effect
BodyExprs ==
    {Expr_Symbol(ParamNames[i]) : i \in 1..MaxParams}
    \cup {Expr_Number(1)}
    \cup {Expr_Symbol(w) : w \in {"+", "drop"}}

\* the worked example  [a, b, c], body [a, b, +, c, *]
DepthThreeExample ==
    <<Expr_Symbol("a"), Expr_Symbol("b"), Expr_Symbol("+"),
      Expr_Symbol("c"), Expr_Symbol("*")>>

InitStacker ==
    /\ TrackerIdle
    /\ \E n \in 1..MaxParams :
         \E b \in SeqsUpTo(BodyExprs, MaxBody) \cup {DepthThreeExample} :
            StackerTranslator_new(Params(n), b)

SpecStacker == InitStacker /\ [][NextStacker]_vars

\* the elements the peephole rules are explored over
PeepholeExprs ==
    {Expr_Symbol("a"), Expr_Symbol("b"), Expr_Number(1),
     Expr_Symbol("+"), Expr_Symbol("drop")}

InitPeephole ==
    /\ TrackerIdle
    /\ \E b \in SeqsUpTo(PeepholeExprs, MaxPeepholeBody) :
            StackerTranslator_new(Params(2), b)

SpecPeephole == InitPeephole /\ [][NextStacker]_vars

----------------------------------------------------------------------------
(* Properties of the translator.                                           *)

\* the stack translate's output is run on: the parameter values pushed in
\* declaration order (the i-th parameter holds i + 1: 2, 3, 4, ...)
Preload(ps) == [i \in 1..Len(ps) |-> Num(i + 1, ps[i])]

\* the body with every parameter name replaced by that parameter's value
Substituted(b, ps) ==
    [i \in 1..Len(b) |->
        IF b[i].expr = "Symbol" /\ \E k \in 1..Len(ps) : ps[k] = b[i].s
        THEN Expr_Number((CHOOSE k \in 1..Len(ps) : ps[k] = b[i].s) + 1)
        ELSE b[i]]

Payloads(st) == [i \in 1..Len(st) |-> st[i].n]

IsParam(e) == e.expr = "Symbol" /\ \E k \in 1..Len(params) : params[k] = e.s

\* the body is built from parameter references, literals and declared-effect
\* words, and refers to every parameter
DeclaredBody ==
    /\ \A i \in 1..Len(body) :
          \/ body[i].expr = "Number"
          \/ IsParam(body[i])
          \/ get_word_effect(body[i].s).some
    /\ \A k \in 1..Len(params) : \E i \in 1..Len(body) : body[i] = Expr_Symbol(params[k])

\* C4: whenever the body (built from parameter references, literals and
\* declared-effect words) evaluates after substituting the parameter values,
\* translate returns a sequence, and running it on the stack pre-loaded with
\* those values in declaration order leaves the same final stack.
C4_TranslationEquivalence ==
    (/\ pc \in {"done", "error"}
     /\ DeclaredBody
     /\ Run(Substituted(body, params), << >>).ok)
    => /\ pc = "done"
       /\ Run(optimized, Preload(params)).ok
       /\ Payloads(Run(optimized, Preload(params)).stack)
            = Payloads(Run(Substituted(body, params), << >>).stack)

\* C5: the seeding gives the rightmost parameter depth 0 and each parameter
\* to its left one more (for [x, y]: x has depth 1, y has depth 0).
C5_RightmostDepthZero ==
    pc \in {"scan", "done", "error"}
    => \A i \in 1..Len(params) : param_depths[params[i]] = Len(params) - i

\* C6: the peephole pass applied to the sequence translate returned gives
\* that sequence back.
C6_PeepholeIdempotent ==
    pc = "done" => apply_peephole_optimizations(optimized) = optimized

\* the expression translate stopped at refers to a parameter whose computed
\* actual depth is negative
NegativeDepthAt ==
    /\ index < Len(body)
    /\ body[index + 1].expr = "Symbol"
    /\ body[index + 1].s \in DOMAIN param_depths
    /\ adjusted_param_depths[body[index + 1].s] + current_stack_depth_increase < 0

\* the operations emitted for one parameter access leave that parameter's
\* value on top of the stack
AccessHitsParam(acc) ==
    LET pre == Run(SubSeq(output, 1, acc.from), Preload(params))
    IN pre.ok =>
         LET r == Run(SubSeq(output, acc.from + 1, acc.to), pre.stack)
         IN /\ r.ok
            /\ r.stack # << >>
            /\ r.stack[Len(r.stack)].src = acc.param

\* C7: a parameter reference whose computed actual depth is negative makes
\* translate fail with the negative-depth error, and in a sequence translate
\* returns every parameter access indexes the slot holding that parameter.
C7_NegativeDepthNeverMisindexes ==
    /\ (pc = "error" /\ NegativeDepthAt) => error = "NegativeDepth"
    /\ pc = "done" => \A k \in 1..Len(accesses) : AccessHitsParam(accesses[k])

----------------------------------------------------------------------------
(* The stack primitives dup, drop and swap of execute_operation, applied   *)
(* to stacks of Numbers (SpecPrimitives).                                  *)

\* stacks of up to MaxPrimStack items are explored
MaxPrimStack == 3

\* the Numbers the explored stacks hold
PrimValues ==
    {Num(1, "literal"), Num(2, "literal"), Num(5, "literal"), Num(7, "literal")}

StackerIdle ==
    /\ pc = "idle"
    /\ params = << >>
    /\ body = << >>
    /\ index = 0
    /\ param_depths = << >>
    /\ adjusted_param_depths = << >>
    /\ current_stack_depth_increase = 0
    /\ param_last_use = << >>
    /\ param_usage_count = << >>
    /\ consumed_params = << >>
    /\ output = << >>
    /\ optimized = << >>
    /\ error = ""
    /\ accesses = << >>

InitPrimitives ==
    /\ resources = ResourceManager_new.resources
    /\ next_id = ResourceManager_new.next_id
    /\ current_regions = ResourceManager_new.current_regions
    /\ stack \in SeqsUpTo(PrimValues, MaxPrimStack)
    /\ result = Ok("new", NoId, Nil)
    /\ issued = << >>
    /\ StackerIdle
    /\ EnvIdle

\* execute_operation "dup" / "drop" / "swap": Err(".. requires a value / two
\* values on the stack") is the stack-underflow error
Primitive(op) ==
    /\ op = "dup" => Len(stack) < MaxPrimStack
    /\ LET r == execute_operation(op, stack) IN
       /\ stack' = r.stack
       /\ result' = IF r.ok THEN Ok(op, NoId, Nil)
                    ELSE Err(op, NoId, "StackUnderflow")
    /\ UNCHANGED <<resources, next_id, current_regions, issued>>
    /\ UNCHANGED <<svars, evars>>

NextPrimitives ==
    \/ Primitive("dup")
    \/ Primitive("drop")
    \/ Primitive("swap")

SpecPrimitives == InitPrimitives /\ [][NextPrimitives]_vars

\* C14: dup pushes a copy of the top item, drop removes the top item, swap
\* exchanges the top two items, each leaving all deeper items unchanged; dup
\* or drop on an empty stack and swap on fewer than two items fail with the
\* stack-underflow error (and leave the stack as it was).
C14_StackPrimitives ==
    [][ LET n == Len(stack) IN
        /\ result'.op = "dup" =>
              IF n = 0
              THEN result'.status = "StackUnderflow" /\ stack' = stack
              ELSE /\ result'.status = "Ok"
                   /\ Len(stack') = n + 1
                   /\ stack'[n + 1] = stack[n]
                   /\ \A k \in 1..n : stack'[k] = stack[k]
        /\ result'.op = "drop" =>
              IF n = 0
              THEN result'.status = "StackUnderflow" /\ stack' = stack
              ELSE /\ result'.status = "Ok"
                   /\ Len(stack') = n - 1
                   /\ \A k \in 1..(n - 1) : stack'[k] = stack[k]
        /\ result'.op = "swap" =>
              IF n < 2
              THEN result'.status = "StackUnderflow" /\ stack' = stack
              ELSE /\ result'.status = "Ok"
                   /\ Len(stack') = n
                   /\ stack'[n] = stack[n - 1]
                   /\ stack'[n - 1] = stack[n]
                   /\ \A k \in 1..(n - 2) : stack'[k] = stack[k]
      ]_vars

\* swap has just exchanged two different items above a third one
C14_Witness ==
    /\ result.op = "swap"
    /\ result.status = "Ok"
    /\ Len(stack) = 3
    /\ stack[2] # stack[3]
    /\ stack[1] # stack[2]

\* the words of the body that do not name a parameter
BodyWords ==
    {body[i].s : i \in {j \in 1..Len(body) :
                          body[j].expr = "Symbol" /\ ~IsParam(body[j])}}

\* every element of seq is a literal or a word of the set allowed
UsesOnly(seq, allowed) ==
    \A i \in 1..Len(seq) : seq[i].expr = "Number" \/ seq[i].s \in allowed

C15_NipWitness ==
    /\ pc = "done"
    /\ \E i \in 1..Len(optimized) : optimized[i] = Expr_Symbol("nip")
    /\ "nip" \notin BodyWords

----------------------------------------------------------------------------
(* Env (env.rs) and the evaluation of quotations and assignments           *)
(* (evaluator.rs, eval_expr): SpecClosure drives the evaluator's own env,  *)
(* SpecEnv drives an Env through with_parent / get / set.                  *)

\* a chain of up to MaxScopes scopes is explored
MaxScopes == 2

\* the names and the Numbers bound to them
EnvNames == {"x", "y"}

EnvNumbers == {1, 2}

\* Env::with_parent: a new scope owning a clone of parent
Env_with_parent(parent) == [bindings |-> << >>, parent |-> <<parent>>]

\* Option<Value>: Some(value); None is the absent answer
Found(v) == [some |-> TRUE, value |-> v]

\* Env::get
RECURSIVE Env_get(_, _)
Env_get(e, name) ==
    IF name \in DOMAIN e.bindings THEN Found(e.bindings[name])
    ELSE IF e.parent # << >> THEN Env_get(e.parent[1], name)
    ELSE None

\* variant: set that overwrites an existing binding of a parent scope
RECURSIVE Env_set_through(_, _, _)
Env_set_through(e, name, v) ==
    IF name \notin DOMAIN e.bindings /\ e.parent # << >>
       /\ Env_get(e.parent[1], name).some
    THEN [e EXCEPT !.parent = <<Env_set_through(e.parent[1], name, v)>>]
    ELSE [e EXCEPT !.bindings = MapInsert(@, name, v)]

\* Env::set
Env_set(e, name, v) == [e EXCEPT !.bindings = MapInsert(@, name, v)]

\* variant: a capture that starts from an empty environment
Env_clone_fresh(e) == Env_new

\* Env::clone (derived Clone: bindings and the boxed parent are copied)
Env_clone(e) == e

\* number of scopes in the chain
RECURSIVE Env_depth(_)
Env_depth(e) == IF e.parent = << >> THEN 1 ELSE 1 + Env_depth(e.parent[1])

\* Value::Quotation(params, body, Some(env))
Quotation(ps, b, e) ==
    [tag |-> "Quotation", params |-> ps, body |-> b, env |-> <<e>>]

\* the quotation expressions evaluated: [x -> x 1] and [-> 1 dup]
QuotationExprs ==
    {[params |-> <<"x">>, body |-> <<Expr_Symbol("x"), Expr_Number(1)>>],
     [params |-> << >>, body |-> <<Expr_Number(1), Expr_Symbol("dup")>>]}

\* eval_expr, Expr::Assignment of a Number literal: env.set(name, value)
Assign(name, n) ==
    /\ env' = Env_set(env, name, Number(n))
    /\ result' = Ok("assign", NoId, Number(n))
    /\ UNCHANGED <<resources, next_id, current_regions, stack, issued>>
    /\ UNCHANGED closure
    /\ UNCHANGED svars

\* eval_expr, Expr::Quotation: returns the closure over a clone of env
EvalQuotation(q) ==
    /\ closure' = <<Quotation(q.params, q.body, Env_clone(env))>>
    /\ result' = Ok("quotation", NoId, Nil)
    /\ UNCHANGED <<resources, next_id, current_regions, stack, issued>>
    /\ UNCHANGED env
    /\ UNCHANGED svars

\* Env::with_parent(&env), the new scope becoming the one operated on
EnterScope ==
    /\ Env_depth(env) < MaxScopes
    /\ env' = Env_with_parent(env)
    /\ result' = Ok("with_parent", NoId, Nil)
    /\ UNCHANGED <<resources, next_id, current_regions, stack, issued>>
    /\ UNCHANGED closure
    /\ UNCHANGED svars

\* Env::get(name): the answer is recorded in result (status Absent for None)
Lookup(name) ==
    /\ LET g == Env_get(env, name) IN
       result' = [op |-> "get", name |-> name,
                  status |-> IF g.some THEN "Ok" ELSE "Absent",
                  id |-> NoId, value |-> IF g.some THEN g.value ELSE Nil,
                  leaked |-> {}]
    /\ UNCHANGED <<resources, next_id, current_regions, stack, issued>>
    /\ UNCHANGED evars
    /\ UNCHANGED svars

InitEnv ==
    /\ TrackerIdle
    /\ StackerIdle

NextClosure ==
    \/ \E name \in EnvNames : \E n \in EnvNumbers : Assign(name, n)
    \/ \E q \in QuotationExprs : EvalQuotation(q)

SpecClosure == InitEnv /\ [][NextClosure]_vars

NextEnv ==
    \/ \E name \in EnvNames : \E n \in EnvNumbers : Assign(name, n)
    \/ EnterScope
    \/ \E name \in EnvNames : Lookup(name)

SpecEnv == InitEnv /\ [][NextEnv]_vars

----------------------------------------------------------------------------
(* Properties of closures and environments.                                *)

\* C16: evaluating a quotation returns a closure over a copy of the current
\* environment and changes neither the stack, the environment nor the
\* tracker (the body is not run); a later assignment in the defining scope
\* leaves the closure, and so its captured environment, unchanged.
C16_ClosureSnapshot ==
    [][ /\ result'.op = "quotation" =>
              /\ stack' = stack
              /\ env' = env
              /\ <<resources', next_id', current_regions'>>
                    = <<resources, next_id, current_regions>>
              /\ Len(closure') = 1
              /\ closure'[1].tag = "Quotation"
              /\ closure'[1].env = <<env>>
        /\ result'.op = "assign" => closure' = closure
      ]_vars

\* an assignment has just overwritten x in the defining scope while the
\* closure returned before still holds the old binding
C16_Witness ==
    /\ result.op = "assign"
    /\ closure # << >>
    /\ Env_get(closure[1].env[1], "x") = Found(Number(1))
    /\ Env_get(env, "x") = Found(Number(2))

\* the binding maps of the chain, innermost scope first
RECURSIVE Scopes(_)
Scopes(e) ==
    IF e.parent = << >> THEN <<e.bindings>>
    ELSE <<e.bindings>> \o Scopes(e.parent[1])

\* the scopes of the chain that define name (1 = innermost)
Defining(e, name) ==
    {k \in 1..Len(Scopes(e)) : name \in DOMAIN Scopes(e)[k]}

\* C17: get answers with the binding of the nearest scope that defines the
\* name, or absent when no scope does; set inserts or overwrites in the
\* current scope only and leaves every parent scope unchanged.
C17_EnvGetSet ==
    [][ /\ result'.op = "get" =>
              LET d == Defining(env, result'.name) IN
              IF d = {} THEN result'.status = "Absent"
              ELSE /\ result'.status = "Ok"
                   /\ \E k \in d :
                         /\ \A j \in d : k <= j
                         /\ result'.value = Scopes(env)[k][result'.name]
        /\ result'.op = "assign" =>
              /\ env'.parent = env.parent
              /\ \E name \in EnvNames :
                    /\ DOMAIN env'.bindings = DOMAIN env.bindings \cup {name}
                    /\ env'.bindings[name] = result'.value
                    /\ \A o \in DOMAIN env.bindings \ {name} :
                          env'.bindings[o] = env.bindings[o]
      ]_vars

\* get has just answered from the parent scope for a name the current scope
\* does not define, after a set in the current scope shadowed the other name
C17_Witness ==
    /\ result.op = "get"
    /\ result.status = "Ok"
    /\ result.name = "y"
    /\ env.parent # << >>
    /\ "y" \notin DOMAIN env.bindings
    /\ "x" \in DOMAIN env.bindings
    /\ "x" \in DOMAIN env.parent[1].bindings
    /\ env.bindings["x"] # env.parent[1].bindings["x"]

-----------------------------------------------------------------------------
(* Equality words of the single-file interpreter (interpreter.rs):         *)
(* "==" 1905-1927, "veq" 2250-2274, "===" 2275-2337.  Value derives        *)
(* PartialEq (interpreter.rs 101-121), so a == b is equality of variant    *)
(* and of every field.                                                     *)
-----------------------------------------------------------------------------

Value_Symbol(s) == [tag |-> "Symbol", s |-> s]

\* Quotation(params, body, closure environment); the sequence env is empty
\* for None and holds the captured environment for Some
Value_Quotation(ps, b, e) ==
    [tag |-> "Quotation", params |-> ps, body |-> b, env |-> e]

Value_List(items) == [tag |-> "List", items |-> items]

Value_Map(m) == [tag |-> "Map", map |-> m]

Nothing == [tag |-> "Nothing"]

\* derived PartialEq: same variant and equal fields
value_eq(a, b) == a.tag = b.tag /\ a = b

\* "veq": every arm of the match, the fallback included, is a == b
veq(a, b) ==
    CASE a.tag = "Number" /\ b.tag = "Number" -> a.n = b.n
      [] a.tag = "String" /\ b.tag = "String" -> a.s = b.s
      [] a.tag = "Symbol" /\ b.tag = "Symbol" -> a.s = b.s
      [] a.tag = "List" /\ b.tag = "List" -> a.items = b.items
      [] a.tag = "Map" /\ b.tag = "Map" -> a.map = b.map
      [] a.tag = "Nothing" /\ b.tag = "Nothing" -> TRUE
      [] OTHER -> value_eq(a, b)

\* "===": the match at interpreter.rs 2288-2326 (the Type, QuotedType and
\* TypedQuotation arms are outside the explored values)
equivalent(a, b) ==
    CASE a.tag = "Number" /\ b.tag = "Number" -> TRUE
      [] a.tag = "String" /\ b.tag = "String" -> TRUE
      [] a.tag = "Symbol" /\ b.tag = "Symbol" -> TRUE
      [] a.tag = "Quotation" /\ b.tag = "Quotation" ->
            Len(a.params) = Len(b.params)
      [] a.tag = "List" /\ b.tag = "List" ->
            IF Len(a.items) # Len(b.items) THEN FALSE
            ELSE \A i \in 1..Len(a.items) : value_eq(a.items[i], b.items[i])
      [] a.tag = "Map" /\ b.tag = "Map" ->
            IF Cardinality(DOMAIN a.map) # Cardinality(DOMAIN b.map) THEN FALSE
            ELSE \A k \in DOMAIN a.map :
                    k \in DOMAIN b.map /\ value_eq(a.map[k], b.map[k])
      [] OTHER -> FALSE

EqualityWords == {"==", "veq", "==="}

compare(op, a, b) ==
    CASE op = "==" -> value_eq(a, b)
      [] op = "veq" -> veq(a, b)
      [] op = "===" -> equivalent(a, b)

\* operands: every variant twice with the same shape and different contents,
\* and once with another arity
EqValues ==
    {Number(1), Number(2), String("s"), String("t"),
     Value_Symbol("x"), Value_Symbol("y"),
     Value_Quotation(<<"a">>, <<Expr_Number(1)>>, << >>),
     Value_Quotation(<<"a">>, <<Expr_Number(2)>>, << >>),
     Value_Quotation(<<"a", "b">>, <<Expr_Number(1)>>, << >>),
     Value_List(<<Number(1)>>), Value_List(<<Number(2)>>),
     Value_List(<<Number(1), Number(2)>>),
     Value_Map([k \in {"k"} |-> Number(1)]),
     Value_Map([k \in {"k"} |-> Number(2)]),
     Nothing}

InitEquality ==
    /\ resources = ResourceManager_new.resources
    /\ next_id = ResourceManager_new.next_id
    /\ current_regions = ResourceManager_new.current_regions
    /\ stack \in [1..2 -> EqValues]
    /\ result = Ok("new", NoId, Nil)
    /\ issued = << >>
    /\ StackerIdle
    /\ EnvIdle

\* one equality word: fewer than two operands is an EvalError that leaves the
\* stack alone; otherwise both operands are popped and 1 or 0 is pushed
Compare(op) ==
    /\ IF Len(stack) < 2
       THEN /\ result' = Err(op, NoId, "EvalError")
            /\ UNCHANGED stack
       ELSE LET b == stack[Len(stack)]
                a == stack[Len(stack) - 1]
            IN  /\ stack' = Append(Front(stack, 2),
                                   Number(IF compare(op, a, b) THEN 1 ELSE 0))
                /\ result' = Ok(op, NoId, Nil)
    /\ UNCHANGED <<resources, next_id, current_regions, issued>>
    /\ UNCHANGED <<svars, evars>>

NextEquality ==
    \/ Compare("==")
    \/ Compare("veq")
    \/ Compare("===")

SpecEquality == InitEquality /\ [][NextEquality]_vars

\* variant, and arity where the variant has one
Shape(v) ==
    CASE v.tag = "Quotation" -> <<v.tag, Len(v.params)>>
      [] v.tag = "List" -> <<v.tag, Len(v.items)>>
      [] v.tag = "Map" -> <<v.tag, Cardinality(DOMAIN v.map)>>
      [] OTHER -> <<v.tag, 0>>

Answered(op) == result'.op = op /\ result'.status = "Ok"

\* the variants the equivalence is stated for
Shaped == {"Number", "String", "Symbol", "Quotation", "List"}

\* C18: on operands that are Numbers, Strings, Symbols, Quotations or Lists,
\* === answers 1 exactly when the two operands have the same variant and
\* arity, whatever they contain (two Lists of one length are equivalent even
\* when their items differ); == and veq answer 1 exactly when the two
\* operands are structurally equal
C18_ShapeLevel ==
    [][ LET b == stack[Len(stack)]
            a == stack[Len(stack) - 1]
            top == stack'[Len(stack')]
        IN  /\ Answered("===") /\ a.tag \in Shaped /\ b.tag \in Shaped =>
                  top = Number(IF Shape(a) = Shape(b) THEN 1 ELSE 0)
            /\ Answered("==") \/ Answered("veq") =>
                  top = Number(IF a.tag = b.tag /\ a = b THEN 1 ELSE 0)
      ]_vars

-----------------------------------------------------------------------------
(* 32-bit arithmetic words: add, sub, mul (evaluator.rs 328-375, the same  *)
(* code at interpreter.rs 620-683) and div (interpreter.rs 684-706).       *)
(* Value::Number holds an i32 and the words use the plain operators        *)
(* a + b, a - b, a * b, a / b.  When the mathematical result is outside    *)
(* i32 the outcome of +, -, * depends on the build: with overflow checks   *)
(* (the default of the dev and test profiles) the operator panics, without *)
(* them (the default of the release profile) it wraps modulo 2^32.         *)
(* i32::MIN / -1 panics in every build.  All intermediate values below     *)
(* stay inside i32, so nothing is computed in a wider type.                *)
-----------------------------------------------------------------------------

I32_MAX == 2147483647

I32_MIN == (-I32_MAX) - 1

add_overflows(a, b) ==
    \/ a > 0 /\ b > I32_MAX - a
    \/ a < 0 /\ b < I32_MIN - a

\* a + b modulo 2^32
wrapping_add(a, b) ==
    IF a > 0 /\ b > I32_MAX - a THEN ((a - I32_MAX) + (b - I32_MAX)) - 2
    ELSE IF a < 0 /\ b < I32_MIN - a THEN (a - I32_MIN) + (b - I32_MIN)
    ELSE a + b

sub_overflows(a, b) ==
    \/ b < 0 /\ a > I32_MAX + b
    \/ b > 0 /\ a < I32_MIN + b

\* a - b modulo 2^32
wrapping_sub(a, b) ==
    IF b < 0 /\ a > I32_MAX + b THEN ((a - I32_MAX) - (b - I32_MIN)) - 1
    ELSE IF b > 0 /\ a < I32_MIN + b THEN ((a - I32_MIN) - (b - I32_MAX)) + 1
    ELSE a - b

abs(x) == IF x < 0 THEN -x ELSE x

\* floor(2^31 / d) for 1 < d <= I32_MAX
pow31_div(d) == (I32_MAX \div d) + (IF I32_MAX % d = d - 1 THEN 1 ELSE 0)

mul_overflows(a, b) ==
    IF a = 0 \/ b = 0 THEN FALSE
    ELSE IF a = I32_MIN THEN b # 1
    ELSE IF b = I32_MIN THEN a # 1
    ELSE IF abs(b) = 1 THEN FALSE
    ELSE IF (a < 0) = (b < 0) THEN abs(a) > I32_MAX \div abs(b)
    ELSE abs(a) > pow31_div(abs(b))

\* byte k (0 is the lowest) of the two's complement representation of x
byte(x, k) ==
    LET p == CASE k = 0 -> 1 [] k = 1 -> 256 [] k = 2 -> 65536 [] k = 3 -> 16777216
    IN  (x \div p) % 256

\* a * b modulo 2^32, by long multiplication of the bytes of the two's
\* complement representations
wrapping_mul(a, b) ==
    LET c0 == byte(a, 0) * byte(b, 0)
        c1 == byte(a, 0) * byte(b, 1) + byte(a, 1) * byte(b, 0) + (c0 \div 256)
        c2 == byte(a, 0) * byte(b, 2) + byte(a, 1) * byte(b, 1)
              + byte(a, 2) * byte(b, 0) + (c1 \div 256)
        c3 == byte(a, 0) * byte(b, 3) + byte(a, 1) * byte(b, 2)
              + byte(a, 2) * byte(b, 1) + byte(a, 3) * byte(b, 0) + (c2 \div 256)
        r3 == c3 % 256
        top == IF r3 >= 128 THEN r3 - 256 ELSE r3
    IN  top * 16777216 + (c2 % 256) * 65536 + (c1 % 256) * 256 + (c0 % 256)

div_overflows(a, b) == a = I32_MIN /\ b = -1

\* a / b truncated toward zero, for b # 0 and not div_overflows(a, b)
truncating_div(a, b) ==
    IF b = 1 THEN a
    ELSE IF a = I32_MIN
    THEN IF b = I32_MIN THEN 1
         ELSE IF b > 0 THEN -pow31_div(b) ELSE pow31_div(-b)
    ELSE IF b = I32_MIN THEN 0
    ELSE LET q == abs(a) \div abs(b)
         IN  IF (a < 0) = (b < 0) THEN q ELSE -q

Returned(v) == [kind |-> "Ok", value |-> v]

Failed(kind) == [kind |-> kind, value |-> Nil]

\* the outcomes the builds can produce for one word on Numbers a and b
number_outcomes(op, a, b) ==
    CASE op = "add" ->
            IF add_overflows(a, b)
            THEN {Failed("Panic"), Returned(Number(wrapping_add(a, b)))}
            ELSE {Returned(Number(a + b))}
      [] op = "sub" ->
            IF sub_overflows(a, b)
            THEN {Failed("Panic"), Returned(Number(wrapping_sub(a, b)))}
            ELSE {Returned(Number(a - b))}
      [] op = "mul" ->
            IF mul_overflows(a, b)
            THEN {Failed("Panic"), Returned(Number(wrapping_mul(a, b)))}
            ELSE {Returned(Number(a * b))}
      [] op = "div" ->
            IF b = 0 THEN {Failed("DivisionByZero")}
            ELSE IF div_overflows(a, b) THEN {Failed("Panic")}
            ELSE {Returned(Number(truncating_div(a, b)))}

ArithWords == {"add", "sub", "mul", "div"}

\* operands at and next to the ends of i32 and around zero
ArithNumbers == {I32_MIN, I32_MIN + 1, -2, -1, 0, 1, 2, I32_MAX - 1, I32_MAX}

InitArith ==
    /\ resources = ResourceManager_new.resources
    /\ next_id = ResourceManager_new.next_id
    /\ current_regions = ResourceManager_new.current_regions
    /\ stack \in [1..2 -> {Number(n) : n \in ArithNumbers}]
    /\ result = Ok("new", NoId, Nil)
    /\ issued = << >>
    /\ StackerIdle
    /\ EnvIdle

\* one arithmetic word.  Fewer than two operands is an EvalError that leaves
\* the stack alone; otherwise both operands are popped and the result is
\* pushed.  A panic ends the process: no word runs after it.
Arith(op) ==
    /\ result.status # "Panic"
    /\ IF Len(stack) < 2
       THEN /\ result' = Err(op, NoId, "EvalError")
            /\ UNCHANGED stack
       ELSE LET b == stack[Len(stack)]
                a == stack[Len(stack) - 1]
            IN  \E o \in number_outcomes(op, a.n, b.n) :
                   /\ stack' = IF o.kind = "Ok"
                               THEN Append(Front(stack, 2), o.value)
                               ELSE Front(stack, 2)
                   /\ result' = IF o.kind = "Ok" THEN Ok(op, NoId, o.value)
                                ELSE Err(op, NoId, o.kind)
    /\ UNCHANGED <<resources, next_id, current_regions, issued>>
    /\ UNCHANGED <<svars, evars>>

NextArith ==
    \/ Arith("add")
    \/ Arith("sub")
    \/ Arith("mul")
    \/ Arith("div")

SpecArith == InitArith /\ [][NextArith]_vars

\* C19: add, sub, mul and div on two int32 Numbers return a Number or an
\* error value and never panic, also when the mathematical result is outside
\* int32, and a zero divisor yields the division-by-zero error
C19_ArithmeticNeverPanics ==
    [][ (result'.op \in ArithWords /\ Len(stack) >= 2) =>
            /\ result'.status # "Panic"
            /\ result'.status = "Ok" => result'.value.tag = "Number"
            /\ (result'.op = "div" /\ stack[Len(stack)].n = 0) =>
                   result'.status = "DivisionByZero"
      ]_vars

-----------------------------------------------------------------------------
(* The peephole pass as a rewriting of programs: the sequence translate    *)
(* emitted (output) against the sequence the pass returns (optimized),     *)
(* both executed by the stack machine.                                     *)

\* the deepest start stack the two sequences are executed on
MaxRunStack == 4

\* start stacks of pairwise different values, bottom first: 2, 3, 4, ...
RunStacks == {[i \in 1..k |-> Num(i + 1, "start")] : k \in 0..MaxRunStack}

\* C20: on every start stack on which the emitted sequence runs without
\* error, the sequence returned by the peephole pass runs without error too
\* and leaves the same final stack.
C20_PeepholePreservesStack ==
    pc = "done" =>
        \A st \in RunStacks :
            Run(output, st).ok =>
                /\ Run(optimized, st).ok
                /\ Payloads(Run(optimized, st).stack)
                      = Payloads(Run(output, st).stack)

-----------------------------------------------------------------------------
(* execute_operation "with_borrowed" (evaluator.rs 596-642): opens a       *)
(* region, borrows the resource, pushes the borrowed handle and closes the *)
(* region.  The quotation is not applied (the source leaves it as a TODO). *)
-----------------------------------------------------------------------------

\* the quotations with_borrowed is given: one parameter, and two
WithBorrowedQuotations ==
    {Quotation(<<"r">>, << >>, Env_new), Quotation(<<"r", "s">>, << >>, Env_new)}

\* eval_expr on a quotation literal: the closure is pushed
PushQuotation(q) ==
    /\ Len(stack) < MaxStack
    /\ stack' = Append(stack, q)
    /\ result' = Ok("push", NoId, Nil)
    /\ UNCHANGED <<resources, next_id, current_regions, issued>>
    /\ UNCHANGED <<svars, evars>>

\* execute_operation "with_borrowed"; every return after the two pops leaves
\* the stack without the quotation and the resource
OpWithBorrowed ==
    /\ Len(current_regions) < MaxRegions
    /\ IF Len(stack) >= 2
       THEN LET quotation == Top(stack)
                resource == Top(Pop(stack))
                rest == Pop(Pop(stack))
            IN  IF quotation.tag # "Quotation"
                THEN /\ stack' = rest
                     /\ result' = Err("with_borrowed", NoId, "ExpectedQuotation")
                     /\ UNCHANGED <<resources, next_id, current_regions>>
                ELSE IF Len(quotation.params) # 1
                THEN /\ stack' = rest
                     /\ result' = Err("with_borrowed", NoId, "ExpectedOneParameter")
                     /\ UNCHANGED <<resources, next_id, current_regions>>
                ELSE IF resource.tag # "Resource"
                THEN /\ stack' = rest
                     /\ result' = Err("with_borrowed", NoId, "ExpectedResource")
                     /\ UNCHANGED <<resources, next_id, current_regions>>
                ELSE LET b == borrow_resource(resource, RM_start_region(Manager))
                     IN  IF ~b.ok
                         THEN /\ stack' = rest
                              /\ SetManager(b.mgr)
                              /\ result' = Err("with_borrowed", resource.id, b.kind)
                         ELSE LET e == RM_end_region(b.mgr) IN
                              /\ stack' = Append(rest, b.value)
                              /\ SetManager(e.mgr)
                              /\ result' = IF e.ok
                                           THEN Ok("with_borrowed", resource.id, b.value)
                                           ELSE Err("with_borrowed", resource.id, e.kind)
       ELSE /\ result' = Err("with_borrowed", NoId, "StackUnderflow")
            /\ UNCHANGED <<resources, next_id, current_regions, stack>>
    /\ UNCHANGED issued
    /\ UNCHANGED <<svars, evars>>

NextWithBorrowed ==
    \/ \E v \in Literals : PushLiteral(v)
    \/ \E q \in WithBorrowedQuotations : PushQuotation(q)
    \/ Dup
    \/ Drop
    \/ Swap
    \/ OpCreateResource
    \/ OpConsumeResource
    \/ OpWithBorrowed
    \/ EndRegion

SpecWithBorrowed == InitTracker /\ [][NextWithBorrowed]_vars

\* C21: with_borrowed leaves the number of open borrowing regions as it
\* found it, whether it returns Ok or an error.
C21_WithBorrowedBalanced ==
    [][ result'.op = "with_borrowed" =>
            Len(current_regions') = Len(current_regions) ]_vars

-----------------------------------------------------------------------------
(* The names execute_operation matches (evaluator.rs 320-665); any other   *)
(* name reaches the last arm and returns "Unknown operation".              *)

EvaluatorOperations ==
    {"print", "add", "sub", "mul",
     "type", "type_equals", "type_to_string", "type_quote", "type_unquote",
     "type_quasiquote",
     "dup", "drop", "swap", "rot", "over", "tuck", "pick",
     "create_resource", "consume_resource", "borrow", "is_resource",
     "resource_type", "with_borrowed",
     ".s", "depth", ".resources"}

\* the words the translator and its peephole pass put into a sequence on
\* their own (stack_effects.rs 349-399, 489-589)
IntroducedWords == {"swap", "rot", "pick", "roll", "nip", "drop"}

\* C22: every word of a returned sequence that the translator can introduce
\* (swap, rot, pick, roll, nip, drop) is a name execute_operation matches, so
\* running the sequence never ends in the unknown-operation error.
C22_IntroducedWordsArePrimitives ==
    pc = "done" =>
        \A i \in 1..Len(optimized) :
            (optimized[i].expr = "Symbol" /\ optimized[i].s \in IntroducedWords)
                => optimized[i].s \in EvaluatorOperations

-----------------------------------------------------------------------------
(* The declared effects (get_word_effect) against the evaluator's          *)
(* primitives: one word applied to a drawn stack.                          *)

\* the words that have a declared effect and an arm in execute_operation
EffectWords == {"dup", "drop", "swap", "rot", "over", "tuck", "add", "sub", "mul"}

\* one word on the drawn stack
Word(op) ==
    /\ result.op = "new"
    /\ LET r == execute_operation(op, stack) IN
       /\ stack' = r.stack
       /\ result' = IF r.ok THEN Ok(op, NoId, Nil)
                    ELSE Err(op, NoId, "EvalError")
    /\ UNCHANGED <<resources, next_id, current_regions, issued>>
    /\ UNCHANGED <<svars, evars>>

NextEffects ==
    \/ Word("dup")
    \/ Word("drop")
    \/ Word("swap")
    \/ Word("rot")
    \/ Word("over")
    \/ Word("tuck")
    \/ Word("add")
    \/ Word("sub")
    \/ Word("mul")

SpecEffects == InitPrimitives /\ [][NextEffects]_vars

\* the index of name in the sequence names (0 when it is not there)
NameIndex(names, name) ==
    IF \E i \in 1..Len(names) : names[i] = name
    THEN CHOOSE i \in 1..Len(names) : names[i] = name
    ELSE 0

\* st changed to st2 as the effect e declares: the inputs are the top
\* Len(e.inputs) items (the last name is the top), everything below them
\* stays, and each output that carries an input's name is that input's item
Obeys(e, st, st2) ==
    LET ni == Len(e.inputs)
        no == Len(e.outputs)
        base == Len(st) - ni
    IN  /\ base >= 0
        /\ Len(st2) = Len(st) + stack_depth_change(e)
        /\ \A k \in 1..base : st2[k] = st[k]
        /\ \A j \in 1..no :
              NameIndex(e.inputs, e.outputs[j]) # 0 =>
                  st2[base + j] = st[base + NameIndex(e.inputs, e.outputs[j])]

\* C23: each successful execution of dup, drop, swap, rot, over, tuck, add,
\* sub or mul changes the stack length by the declared |outputs| - |inputs|
\* and leaves the named items in the declared output order.
C23_PrimitivesObeyDeclaredEffects ==
    [][ (result'.op \in EffectWords /\ result'.status = "Ok") =>
            Obeys(get_word_effect(result'.op).effect, stack, stack') ]_vars

\* tuck has just put a copy of the top item below the second of two
\* different items
C23_Witness ==
    /\ result.op = "tuck"
    /\ result.status = "Ok"
    /\ Len(stack) = 3
    /\ stack[1] = stack[3]
    /\ stack[2] # stack[3]

-----------------------------------------------------------------------------
(* translate on bodies that mix words of every declared depth change with  *)
(* words that have no declared effect.                                     *)

\* translate is explored here for bodies of up to MaxWordBody expressions
MaxWordBody == 3

\* a parameter reference, a literal, words declared with depth change -1, +1
\* and 0, and two words without a declared effect (pick is declared None)
WordExprs ==
    {Expr_Symbol("a"), Expr_Number(1)}
    \cup {Expr_Symbol(w) : w \in {"+", "dup", "swap", "pick", "frob"}}

InitWords ==
    /\ TrackerIdle
    /\ \E n \in 1..2 :
         \E b \in SeqsUpTo(WordExprs, MaxWordBody) :
            StackerTranslator_new(Params(n), b)

SpecWords == InitWords /\ [][NextStacker]_vars

\* the body expression translate is about to handle is a word
AtWord ==
    /\ pc = "scan"
    /\ index < Len(body)
    /\ body[index + 1].expr = "Symbol"
    /\ ~IsParam(body[index + 1])

-----------------------------------------------------------------------------
(* Nested quotations (stack_effects.rs 435-473).  A nested quotation with  *)
(* parameters is translated by a translator of its own, so translate is    *)
(* also given as a function of (params, body) here; it follows the same    *)
(* steps as the actions above.                                             *)
-----------------------------------------------------------------------------

Expr_Quotation(ps, b) == [expr |-> "Quotation", params |-> ps, body |-> b]

\* the fields of a StackerTranslator, and whether an error was returned
Translator(pd, apd, inc, out, puc, plu, cons) ==
    [ok |-> TRUE, error |-> "",
     param_depths |-> pd, adjusted_param_depths |-> apd,
     current_stack_depth_increase |-> inc, output |-> out,
     param_usage_count |-> puc, param_last_use |-> plu,
     consumed_params |-> cons]

Raise(t, kind) == [t EXCEPT !.ok = FALSE, !.error = kind]

RECURSIVE translate(_, _)
RECURSIVE translate_expr_enhanced(_, _, _)
RECURSIVE translate_exprs(_, _, _)

\* variant: a nested quotation that counts as many items as its translated
\* body has elements
nested_with_params_counts_body(t, q) ==
    LET opened == [t EXCEPT !.output = Append(@, Expr_Symbol("["))]
        inner == translate(q.params, q.body)
    IN  IF ~inner.ok THEN Raise(opened, inner.error)
        ELSE [opened EXCEPT
                !.output = (@ \o inner.seq) \o <<Expr_Symbol("]")>>,
                !.current_stack_depth_increase = @ + Len(inner.seq)]

\* Expr::Quotation with a parameter list: "[", the sequence a new translator
\* returns for it, "]"; the saved maps are put back and the depth increase
\* grows by one
nested_with_params(t, q) ==
    LET opened == [t EXCEPT !.output = Append(@, Expr_Symbol("["))]
        inner == translate(q.params, q.body)
    IN  IF ~inner.ok THEN Raise(opened, inner.error)
        ELSE [opened EXCEPT
                !.output = (@ \o inner.seq) \o <<Expr_Symbol("]")>>,
                !.current_stack_depth_increase = @ + 1,
                !.param_depths = t.param_depths,
                !.adjusted_param_depths = t.adjusted_param_depths,
                !.consumed_params = t.consumed_params]

\* Expr::Quotation without parameters: the body is translated by this
\* translator, each expression with its index inside the quotation, then
\* the saved maps are put back
nested_without_params(t, q) ==
    LET opened == [t EXCEPT !.output = Append(@, Expr_Symbol("["))]
        inner == translate_exprs(opened, q.body, 0)
    IN  IF ~inner.ok THEN inner
        ELSE [inner EXCEPT
                !.output = Append(@, Expr_Symbol("]")),
                !.current_stack_depth_increase = @ + 1,
                !.param_depths = t.param_depths,
                !.adjusted_param_depths = t.adjusted_param_depths,
                !.consumed_params = t.consumed_params]

\* translate_expr_enhanced(expr, index)
translate_expr_enhanced(t, e, idx) ==
    CASE e.expr = "Number" ->
            [t EXCEPT !.output = Append(@, e),
                      !.current_stack_depth_increase = @ + 1]
      [] e.expr = "Symbol" /\ e.s \in DOMAIN t.param_depths ->
            LET s == e.s
                is_last_use == s \in DOMAIN t.param_last_use
                               /\ t.param_last_use[s] = idx
                actual_depth == t.adjusted_param_depths[s]
                                + t.current_stack_depth_increase
            IN  IF \E k \in 1..Len(t.consumed_params) : t.consumed_params[k] = s
                THEN Raise(t, "ParamAlreadyConsumed")
                ELSE IF actual_depth < 0 THEN Raise(t, "NegativeDepth")
                ELSE IF is_last_use
                THEN [t EXCEPT
                        !.output = @ \o last_use_ops(actual_depth),
                        !.consumed_params = Append(@, s),
                        !.adjusted_param_depths =
                            shift_adjusted_depths(@, actual_depth)]
                ELSE [t EXCEPT
                        !.output = @ \o <<Expr_Number(actual_depth),
                                          Expr_Symbol("pick")>>,
                        !.current_stack_depth_increase = @ + 1]
      [] e.expr = "Symbol" /\ e.s \notin DOMAIN t.param_depths ->
            LET stack_effect == get_word_effect(e.s)
            IN  IF ~stack_effect.some THEN Raise(t, "UnknownWordEffect")
                ELSE [t EXCEPT
                        !.current_stack_depth_increase =
                            IF e.s = "pick" \/ e.s = "roll" THEN @ + 0
                            ELSE @ + stack_depth_change(stack_effect.effect),
                        !.output = Append(@, Expr_Symbol(e.s))]
      [] e.expr = "Quotation" ->
            IF e.params # << >> THEN nested_with_params(t, e)
            ELSE nested_without_params(t, e)

\* for (index, expr) in exprs.iter().enumerate(), from index i on, stopping
\* at the first error
translate_exprs(t, exprs, i) ==
    IF ~t.ok \/ i >= Len(exprs) THEN t
    ELSE translate_exprs(translate_expr_enhanced(t, exprs[i + 1], i), exprs, i + 1)

\* StackerTranslator::translate
translate(ps, b) ==
    LET depths == seed_param_depths(ps, Len(ps), << >>)
        t == translate_exprs(
                 Translator(depths, depths, 0, << >>,
                            analyze_usage_count(b, depths, 0, << >>),
                            analyze_last_use(b, depths, 0, << >>), << >>),
                 b, 0)
    IN  IF t.ok
        THEN [ok |-> TRUE, error |-> "",
              seq |-> apply_peephole_optimizations(t.output)]
        ELSE [ok |-> FALSE, error |-> t.error, seq |-> << >>]

\* the translator the actions work on
Self ==
    Translator(param_depths, adjusted_param_depths, current_stack_depth_increase,
               output, param_usage_count, param_last_use, consumed_params)

\* translate_expr_enhanced, Expr::Quotation
TranslateQuotation ==
    /\ pc = "scan"
    /\ index < Len(body)
    /\ body[index + 1].expr = "Quotation"
    /\ LET t == translate_expr_enhanced(Self, body[index + 1], index)
       IN  IF ~t.ok THEN TranslateFails(t.error)
           ELSE /\ param_depths' = t.param_depths
                /\ adjusted_param_depths' = t.adjusted_param_depths
                /\ current_stack_depth_increase' = t.current_stack_depth_increase
                /\ output' = t.output
                /\ param_usage_count' = t.param_usage_count
                /\ param_last_use' = t.param_last_use
                /\ consumed_params' = t.consumed_params
                /\ index' = index + 1
                /\ UNCHANGED <<pc, params, body, optimized, error, accesses>>
    /\ UNCHANGED <<tvars, evars>>

NextNested ==
    \/ TranslateBegin
    \/ TranslateLiteral
    \/ TranslateParam
    \/ TranslateWord
    \/ TranslateQuotation
    \/ TranslateEnd

\* translate is explored here for bodies of up to MaxNestedBody expressions
MaxNestedBody == 3

\* nested quotations: one and two parameters of their own, a parameter named
\* like an outer one, a body that fails, and one without parameters that
\* refers to an outer parameter
NestedQuotations ==
    {Expr_Quotation(<<"x">>, <<Expr_Symbol("x"), Expr_Symbol("x")>>),
     Expr_Quotation(<<"x", "y">>, <<Expr_Symbol("y"), Expr_Symbol("x"), Expr_Symbol("+")>>),
     Expr_Quotation(<<"a">>, <<Expr_Symbol("a"), Expr_Number(1), Expr_Symbol("+")>>),
     Expr_Quotation(<<"x">>, <<Expr_Symbol("frob")>>),
     Expr_Quotation(<< >>, <<Expr_Symbol("a")>>)}

NestedExprs ==
    {Expr_Symbol("a"), Expr_Symbol("b"), Expr_Number(1), Expr_Symbol("+")}
    \cup NestedQuotations

InitNested ==
    /\ TrackerIdle
    /\ \E n \in 1..2 :
         \E b \in SeqsUpTo(NestedExprs, MaxNestedBody) :
            StackerTranslator_new(Params(n), b)

SpecNested == InitNested /\ [][NextNested]_vars

\* the expression translate is about to handle is a quotation with a
\* parameter list
AtNestedWithParams ==
    /\ pc = "scan"
    /\ index < Len(body)
    /\ body[index + 1].expr = "Quotation"
    /\ body[index + 1].params # << >>

\* C25: translating a nested quotation that has its own parameter list
\* leaves the outer parameter depth maps, the last-use and usage maps and the
\* consumed set exactly as before, grows the outer depth increase by exactly
\* 1, and puts between "[" and "]" the sequence a translator started afresh
\* returns for the nested quotation.
C25_NestedQuotationIsolated ==
    [][ (AtNestedWithParams /\ pc' = "scan") =>
          LET q == body[index + 1] IN
          /\ param_depths' = param_depths
          /\ adjusted_param_depths' = adjusted_param_depths
          /\ param_last_use' = param_last_use
          /\ param_usage_count' = param_usage_count
          /\ consumed_params' = consumed_params
          /\ current_stack_depth_increase' = current_stack_depth_increase + 1
          /\ output' = ((output \o <<Expr_Symbol("[")>>)
                        \o translate(q.params, q.body).seq)
                       \o <<Expr_Symbol("]")>>
      ]_vars

\* a nested quotation whose parameter carries the name of a consumed outer
\* parameter has just been translated to a body longer than one element
C25_Witness ==
    /\ pc = "scan"
    /\ index = 2
    /\ body[1] = Expr_Symbol("a")
    /\ body[2] = Expr_Quotation(<<"a">>, <<Expr_Symbol("a"), Expr_Number(1), Expr_Symbol("+")>>)
    /\ consumed_params = <<"a">>
    /\ Len(output) > 3
    /\ output[Len(output)] = Expr_Symbol("]")

-----------------------------------------------------------------------------
(* Lengths of the peephole pass's input (output) and result (optimized).   *)

\* the sequence ends with "1 pick"
EndsWithOnePick(seq) ==
    /\ Len(seq) >= 2
    /\ is_expr_number(seq[Len(seq) - 1], 1)
    /\ is_expr_symbol(seq[Len(seq)], "pick")

\* the pass changed nothing but a trailing "1 pick", which became "swap drop"
OnlyTrailingOnePick ==
    /\ EndsWithOnePick(output)
    /\ optimized = Front(output, 2) \o <<Expr_Symbol("swap"), Expr_Symbol("drop")>>

-----------------------------------------------------------------------------
(* execute_operation "pick" (evaluator.rs 510-526) on drawn stacks.        *)

\* pick is explored on stacks of up to MaxPickStack items
MaxPickStack == 4

\* depths below, inside and above the range of the stack, and a value that
\* is not a number
PickValues ==
    {Num(-1, "literal"), Num(0, "literal"), Num(1, "literal"),
     Num(2, "literal"), String("s")}

InitPick ==
    /\ resources = ResourceManager_new.resources
    /\ next_id = ResourceManager_new.next_id
    /\ current_regions = ResourceManager_new.current_regions
    /\ stack \in SeqsUpTo(PickValues, MaxPickStack)
    /\ result = Ok("new", NoId, Nil)
    /\ issued = << >>
    /\ StackerIdle
    /\ EnvIdle

NextPick ==
    \/ Word("pick")

SpecPick == InitPick /\ [][NextPick]_vars

\* C27: n pick pops the number n and, when 0 <= n < the remaining stack
\* length, pushes a copy of the item n positions below the top and leaves
\* every other item in place (0 pick is dup and 1 pick is over on the
\* remaining stack); for any other n, or a top that is not a number, it fails.
C27_Pick ==
    [][ result'.op = "pick" =>
          LET len == Len(stack)
              top == stack[len]
              rest == Front(stack, 1)
          IN  IF len >= 2 /\ top.tag = "Number" /\ top.n >= 0 /\ top.n < len - 1
              THEN /\ result'.status = "Ok"
                   /\ Len(stack') = len
                   /\ \A k \in 1..(len - 1) : stack'[k] = stack[k]
                   /\ stack'[len] = stack[len - 1 - top.n]
                   /\ top.n = 0 => stack' = execute_operation("dup", rest).stack
                   /\ top.n = 1 => stack' = execute_operation("over", rest).stack
              ELSE result'.status # "Ok"
      ]_vars

\* 2 pick has just copied the third item from the top, which differs from
\* the two items above it
C27_Witness ==
    /\ result.op = "pick"
    /\ result.status = "Ok"
    /\ Len(stack) = 4
    /\ stack[4] = stack[1]
    /\ stack[1] # stack[2]
    /\ stack[1] # stack[3]

-----------------------------------------------------------------------------
(* create_resource followed at once by consume_resource                    *)
(* (effects.rs 253-258, 266-269, 280-294).                                 *)

\* what consume_resource returns for the handle that create_resource makes
\* of v in the present manager, nothing happening in between
create_then_consume(v, resource_type) ==
    LET t == tag_as_resource(v, resource_type, Manager) IN
    consume_resource(t.value, t.mgr)

\* C28: for every value v and type tag t, consume_resource applied to the
\* result of create_resource(t, v), with no borrow in between, succeeds and
\* returns exactly v, also when v is itself a Resource value.
C28_CreateConsumeRoundTrip ==
    \A i \in 1..Len(stack) : \A t \in {"file", "socket"} :
        LET c == create_then_consume(stack[i], t) IN
        c.ok /\ c.value = stack[i]

-----------------------------------------------------------------------------
(* Open regions and consumed flags (effects.rs 93-108, 150-161).           *)

\* C29: in every reachable tracker state, every id held in the set of an open
\* region names a registered resource whose consumed flag is not set.
C29_OpenRegionsHoldLiveIds ==
    \A k \in 1..Len(current_regions) : \A id \in current_regions[k] :
        /\ id \in DOMAIN resources
        /\ ~resources[id].consumed

\* a consume has just been refused for an id held by an open region, while
\* another resource, held by no region, is already consumed
C29_Witness ==
    /\ result.op \in {"consume_resource", "rm_consume"}
    /\ result.status = "BorrowedActive"
    /\ \E k \in 1..Len(current_regions) : result.id \in current_regions[k]
    /\ ~resources[result.id].consumed
    /\ \E other \in DOMAIN resources : resources[other].consumed

-----------------------------------------------------------------------------
(* == against === (interpreter.rs 1905-1927, 2275-2337).                   *)

\* C30: value equality refines shape equivalence: whenever a b == answers
\* true, a b === answers true as well; in particular v v === is true for
\* every value v, Nothing included.
C30_EqualityRefinesEquivalence ==
    Len(stack) = 2 =>
        LET a == stack[1]
            b == stack[2]
        IN  /\ compare("==", a, b) => compare("===", a, b)
            /\ compare("===", a, a)

====
